---- MODULE Spec2Model ----
(***************************************************************************)
(* Conversation orchestration engine of the psychosocial questionnaire     *)
(* bot: the questionnaire state machine (src/src/agent.py), the response   *)
(* parser, and the crisis overlay with the two-tier safety screening       *)
(* (src/src/utils/safety.py).                                              *)
(*                                                                         *)
(* One participant is modelled.  Every inbound message is one pass         *)
(* load_state -> process_message -> save_state, so the variables are the   *)
(* participant's rows in the datastore as they stand between two passes.   *)
(*                                                                         *)
(* Text is a sequence of characters, each character a one-element string.  *)
(* A letter with a diacritic is written base + mark ("a~", "c,", "e'"),    *)
(* the variation selector and the keycap of a numeric emoji are "VS16"     *)
(* and "KEYCAP".  Confidences are in hundredths (0.4 is 40) and safety     *)
(* scores in half points (0.5 is 1, 8 is 16), so both stay integers.       *)
(***************************************************************************)
EXTENDS Integers, Sequences, FiniteSets, TLC


(***************************************************************************)
(* Thresholds and limits of the code.  Confidences are in hundredths       *)
(* (0.4 is 40); safety scores are in half points (8 is 2 * 8).             *)
(***************************************************************************)
SAFETY_CONFIDENCE_THRESHOLD == 40

EMERGENCY_CONFIDENCE == 60

CRISIS_NOTE_TURNS == 10

REMINDER_EVERY == 4

CLARIFICATION_LIMIT == 2

RISK_CUTOFF == 3

MAX_SKIPS == 5

MAX_ATTEMPTS_REQUIRED == 5

MAX_ATTEMPTS_OPTIONAL == 3

MaxTextLen == 500

(***************************************************************************)
(* Bounds of the exploration.                                              *)
(***************************************************************************)
\* attempts counted on one question before the exploration stops adding
MaxAttempts == 5

\* clarifications counted on one question before the exploration stops adding
MaxClarifications == 3

\* turns of one crisis episode
MaxCrisisTurns == 2

\* explanations relayed in a row on one question before the exploration stops
MaxExplained == 3

(***************************************************************************)
(* Values: JSON scalars as records of one shape.                           *)
(***************************************************************************)
AbsentVal == [k |-> "absent", n |-> 0, t |-> <<>>]

EMERGENCY_KEYWORDS ==
    << [type |-> "suicide", keywords |->
           << <<"s", "u", "i", "c", "i'", "d", "i", "o">>,
             <<"s", "u", "i", "c", "i", "d", "i", "o">>,
             <<"m", "e", " ", "m", "a", "t", "a", "r">>,
             <<"t", "i", "r", "a", "r", " ", "m", "i", "n", "h", "a", " ", "v", "i", "d", "a">>,
             <<"n", "a~", "o", " ", "a", "g", "u", "e", "n", "t", "o", " ", "m", "a", "i", "s">>,
             <<"n", "a", "o", " ", "a", "g", "u", "e", "n", "t", "o", " ", "m", "a", "i", "s">>,
             <<"a", "c", "a", "b", "a", "r", " ", "c", "o", "m", " ", "t", "u", "d", "o">>,
             <<"d", "e", "s", "i", "s", "t", "i", "r", " ", "d", "e", " ", "v", "i", "v", "e", "r">>,
             <<"m", "e", " ", "c", "o", "r", "t", "a", "r">>,
             <<"m", "e", " ", "m", "a", "c", "h", "u", "c", "a", "r">>,
             <<"a", "u", "t", "o", "m", "u", "t", "i", "l", "a", "c,", "a~", "o">>,
             <<"a", "u", "t", "o", "m", "u", "t", "i", "l", "a", "c", "a", "o">> >>],
       [type |-> "violence", keywords |->
           << <<"m", "a", "t", "a", "r", " ", "a", "l", "g", "u", "e'", "m">>,
             <<"m", "a", "t", "a", "r", " ", "a", "l", "g", "u", "e", "m">>,
             <<"m", "a", "c", "h", "u", "c", "a", "r">>,
             <<"v", "i", "o", "l", "e^", "n", "c", "i", "a">>,
             <<"v", "i", "o", "l", "e", "n", "c", "i", "a">>,
             <<"a", "g", "r", "e", "d", "i", "r">>,
             <<"f", "e", "r", "i", "r">>,
             <<"a", "t", "a", "c", "a", "r">>,
             <<"v", "i", "n", "g", "a", "n", "c,", "a">>,
             <<"v", "i", "n", "g", "a", "n", "c", "a">> >>],
       [type |-> "substance", keywords |->
           << <<"o", "v", "e", "r", "d", "o", "s", "e">>,
             <<"d", "r", "o", "g", "a", "s">>,
             <<"a'", "l", "c", "o", "o", "l">>,
             <<"a", "l", "c", "o", "o", "l">>,
             <<"v", "i'", "c", "i", "o">>,
             <<"v", "i", "c", "i", "o">>,
             <<"d", "e", "p", "e", "n", "d", "e^", "n", "c", "i", "a">>,
             <<"d", "e", "p", "e", "n", "d", "e", "n", "c", "i", "a">>,
             <<"a", "b", "u", "s", "o", " ", "d", "e", " ", "s", "u", "b", "s", "t", "a^", "n", "c", "i", "a">> >>],
       [type |-> "psychosis", keywords |->
           << <<"v", "o", "z", "e", "s">>,
             <<"a", "l", "u", "c", "i", "n", "a", "c,", "a~", "o">>,
             <<"a", "l", "u", "c", "i", "n", "a", "c", "a", "o">>,
             <<"p", "e", "r", "s", "e", "g", "u", "i", "c,", "a~", "o">>,
             <<"p", "e", "r", "s", "e", "g", "u", "i", "c", "a", "o">>,
             <<"c", "o", "m", "p", "l", "o^">>,
             <<"c", "o", "m", "p", "l", "o">>,
             <<"d", "e", "l", "i'", "r", "i", "o">>,
             <<"d", "e", "l", "i", "r", "i", "o">>,
             <<"p", "a", "r", "a", "n", "o", "i", "a">> >>],
       [type |-> "help_request", keywords |->
           << <<"m", "e", " ", "s", "e", "n", "t", "i", "n", "d", "o", " ", "m", "a", "l">>,
             <<"s", "e", "n", "t", "i", "n", "d", "o", " ", "m", "a", "l">>,
             <<"p", "r", "e", "c", "i", "s", "o", " ", "d", "e", " ", "a", "j", "u", "d", "a">>,
             <<"p", "r", "e", "c", "i", "s", "o", " ", "a", "j", "u", "d", "a">>,
             <<"c", "o", "n", "t", "a", "t", "o", " ", "d", "e", " ", "a", "l", "g", "u", "e'", "m">>,
             <<"c", "o", "n", "t", "a", "t", "o", " ", "d", "e", " ", "a", "l", "g", "u", "e", "m">>,
             <<"c", "o", "n", "t", "a", "t", "o", " ", "p", "a", "r", "a", " ", "a", "j", "u", "d", "a", "r">>,
             <<"a", "l", "g", "u", "e'", "m", " ", "p", "a", "r", "a", " ", "m", "e", " ", "a", "j", "u", "d", "a", "r">>,
             <<"a", "l", "g", "u", "e", "m", " ", "p", "a", "r", "a", " ", "m", "e", " ", "a", "j", "u", "d", "a", "r">> >>] >>

RestartWords ==
    << <<"r", "e", "i", "n", "i", "c", "i", "a", "r">>,
       <<"r", "e", "c", "o", "m", "e", "c", "a", "r">>,
       <<"r", "e", "s", "e", "t">>,
       <<"r", "e", "s", "t", "a", "r", "t">> >>

ConsentYesWords ==
    << <<"s", "i", "m">>,
       <<"y", "e", "s">>,
       <<"o", "k">>,
       <<"v", "a", "m", "o", "s">>,
       <<"p", "o", "d", "e">>,
       <<"a", "c", "e", "i", "t", "o">>,
       <<"c", "o", "n", "c", "o", "r", "d", "o">> >>

ConsentNoWords ==
    << <<"n", "a", "o">>,
       <<"n", "a~", "o">>,
       <<"n", "o">>,
       <<"d", "e", "p", "o", "i", "s">>,
       <<"p", "a", "r", "e">> >>

LikertKeywords ==
    << << <<"d", "i", "s", "c", "o", "r", "d", "o", " ", "t", "o", "t", "a", "l", "m", "e", "n", "t", "e">>,
          <<"d", "i", "s", "c", "o", "r", "d", "o", " ", "m", "u", "i", "t", "o">>,
          <<"p", "e", "s", "s", "i", "m", "o">>,
          <<"h", "o", "r", "r", "i", "v", "e", "l">> >>,
       << <<"d", "i", "s", "c", "o", "r", "d", "o">>,
          <<"r", "u", "i", "m">>,
          <<"m", "a", "l">> >>,
       << <<"n", "e", "u", "t", "r", "o">>,
          <<"m", "e", "d", "i", "o">>,
          <<"m", "a", "i", "s", " ", "o", "u", " ", "m", "e", "n", "o", "s">>,
          <<"t", "a", "l", "v", "e", "z">> >>,
       << <<"c", "o", "n", "c", "o", "r", "d", "o">>,
          <<"b", "o", "m">>,
          <<"b", "e", "m">> >>,
       << <<"c", "o", "n", "c", "o", "r", "d", "o", " ", "t", "o", "t", "a", "l", "m", "e", "n", "t", "e">>,
          <<"c", "o", "n", "c", "o", "r", "d", "o", " ", "m", "u", "i", "t", "o">>,
          <<"o", "t", "i", "m", "o">>,
          <<"e", "x", "c", "e", "l", "e", "n", "t", "e">> >> >>

LikertLiterals ==
    << [token |-> <<"emoji_sad">>, value |-> 1],
       [token |-> <<"emoji_frown">>, value |-> 2],
       [token |-> <<"emoji_neutral">>, value |-> 3],
       [token |-> <<"emoji_smile">>, value |-> 4],
       [token |-> <<"emoji_grin">>, value |-> 5],
       [token |-> <<"1">>, value |-> 1],
       [token |-> <<"2">>, value |-> 2],
       [token |-> <<"3">>, value |-> 3],
       [token |-> <<"4">>, value |-> 4],
       [token |-> <<"5">>, value |-> 5],
       [token |-> <<"1", "VS16", "KEYCAP">>, value |-> 1],
       [token |-> <<"2", "VS16", "KEYCAP">>, value |-> 2],
       [token |-> <<"3", "VS16", "KEYCAP">>, value |-> 3],
       [token |-> <<"4", "VS16", "KEYCAP">>, value |-> 4],
       [token |-> <<"5", "VS16", "KEYCAP">>, value |-> 5] >>

number_emoji_map ==
    << <<"1", "VS16", "KEYCAP">>,
       <<"2", "VS16", "KEYCAP">>,
       <<"3", "VS16", "KEYCAP">>,
       <<"4", "VS16", "KEYCAP">>,
       <<"5", "VS16", "KEYCAP">>,
       <<"6", "VS16", "KEYCAP">>,
       <<"7", "VS16", "KEYCAP">>,
       <<"8", "VS16", "KEYCAP">>,
       <<"9", "VS16", "KEYCAP">> >>

FollowupOptions ==
    << <<"S", "i", "m">>,
       <<"N", "a~", "o">>,
       <<"P", "r", "e", "f", "i", "r", "o", " ", "n", "a~", "o", " ", "r", "e", "s", "p", "o", "n", "d", "e", "r">> >>

OriginOptions ==
    << <<"D", "o", " ", "a", "m", "b", "i", "e", "n", "t", "e", " ", "d", "e", " ", "t", "r", "a", "b", "a", "l", "h", "o">>,
       <<"D", "a", " ", "v", "i", "d", "a", " ", "p", "e", "s", "s", "o", "a", "l">>,
       <<"D", "o", "s", " ", "d", "o", "i", "s">>,
       <<"P", "r", "e", "f", "i", "r", "o", " ", "n", "a~", "o", " ", "r", "e", "s", "p", "o", "n", "d", "e", "r">> >>

target_dimensions ==
    << <<"Q", "u", "a", "l", "i", "d", "a", "d", "e", " ", "d", "o", " ", "s", "o", "n", "o", " ", "e", " ", "d", "i", "s", "p", "o", "s", "i", "c,", "a~", "o">>,
       <<"A^", "n", "i", "m", "o", " ", "e", " ", "m", "o", "t", "i", "v", "a", "c,", "a~", "o">>,
       <<"E", "s", "t", "r", "e", "s", "s", "e", " ", "e", " ", "a", "n", "s", "i", "e", "d", "a", "d", "e">>,
       <<"E", "q", "u", "i", "l", "i'", "b", "r", "i", "o", " ", "v", "i", "d", "a", "-", "t", "r", "a", "b", "a", "l", "h", "o">>,
       <<"E", "x", "i", "g", "e^", "n", "c", "i", "a", "s", " ", "d", "e", " ", "t", "e", "m", "p", "o", " ", "n", "o", " ", "t", "r", "a", "b", "a", "l", "h", "o">> >>

\* one character lower-cased and stripped of its accent
FoldChar(ch) ==
    CASE ch = "A" -> "a"
      [] ch = "A'" -> "a"
      [] ch = "A^" -> "a"
      [] ch = "A~" -> "a"
      [] ch = "B" -> "b"
      [] ch = "C" -> "c"
      [] ch = "C," -> "c"
      [] ch = "D" -> "d"
      [] ch = "E" -> "e"
      [] ch = "E'" -> "e"
      [] ch = "E^" -> "e"
      [] ch = "F" -> "f"
      [] ch = "G" -> "g"
      [] ch = "H" -> "h"
      [] ch = "I" -> "i"
      [] ch = "I'" -> "i"
      [] ch = "J" -> "j"
      [] ch = "K" -> "k"
      [] ch = "L" -> "l"
      [] ch = "M" -> "m"
      [] ch = "N" -> "n"
      [] ch = "O" -> "o"
      [] ch = "O'" -> "o"
      [] ch = "O^" -> "o"
      [] ch = "O~" -> "o"
      [] ch = "P" -> "p"
      [] ch = "Q" -> "q"
      [] ch = "R" -> "r"
      [] ch = "S" -> "s"
      [] ch = "T" -> "t"
      [] ch = "U" -> "u"
      [] ch = "U'" -> "u"
      [] ch = "V" -> "v"
      [] ch = "W" -> "w"
      [] ch = "X" -> "x"
      [] ch = "Y" -> "y"
      [] ch = "Z" -> "z"
      [] ch = "a'" -> "a"
      [] ch = "a^" -> "a"
      [] ch = "a`" -> "a"
      [] ch = "a~" -> "a"
      [] ch = "c," -> "c"
      [] ch = "e'" -> "e"
      [] ch = "e^" -> "e"
      [] ch = "i'" -> "i"
      [] ch = "o'" -> "o"
      [] ch = "o^" -> "o"
      [] ch = "o~" -> "o"
      [] ch = "u'" -> "u"
      [] OTHER -> ch

resume_signals ==
    << <<"[", "R", "E", "T", "O", "M", "A", "R", "_", "Q", "U", "E", "S", "T", "I", "O", "N", "A", "R", "I", "O", "]">>,
       <<"[", "R", "E", "T", "O", "M", "A", "R", " ", "Q", "U", "E", "S", "T", "I", "O", "N", "A", "R", "I", "O", "]">>,
       <<"[", "R", "E", "T", "O", "M", "A", "R", "_", "Q", "U", "E", "S", "T", "I", "O", "N", "A'", "R", "I", "O", "]">>,
       <<"[", "R", "E", "T", "O", "M", "A", "R", " ", "Q", "U", "E", "S", "T", "I", "O", "N", "A'", "R", "I", "O", "]">> >>

\* the acknowledgement used when stripping the signal leaves nothing
DefaultResumeReply ==
    <<"Q", "u", "e", " ", "b", "o", "m", " ", "q", "u", "e", " ", "v", "o", "c", "e^", " ",
    "e", "s", "t", "a'", " ", "s", "e", " ", "s", "e", "n", "t", "i", "n", "d", "o", " ", "m",
    "e", "l", "h", "o", "r", "!", " ", "V", "a", "m", "o", "s", " ", "r", "e", "t", "o", "m",
    "a", "r", " ", "o", " ", "q", "u", "e", "s", "t", "i", "o", "n", "a'", "r", "i", "o", " ",
    "d", "e", " ", "o", "n", "d", "e", " ", "p", "a", "r", "a", "m", "o", "s", ".">>

\* the fixed supportive message used when the dialogue service fails
FallbackReply ==
    <<"E", "s", "t", "o", "u", " ", "a", "q", "u", "i", " ", "p", "a", "r", "a", " ", "t",
    "e", " ", "a", "p", "o", "i", "a", "r", ".", " ", "C", "o", "m", "o", " ", "v", "o", "c",
    "e^", " ", "e", "s", "t", "a'", " ", "s", "e", " ", "s", "e", "n", "t", "i", "n", "d",
    "o", " ", "a", "g", "o", "r", "a", "?", " ", "L", "e", "m", "b", "r", "e", "-", "s", "e",
    " ", "q", "u", "e", " ", "h", "a'", " ", "a", "j", "u", "d", "a", " ", "d", "i", "s", "p",
    "o", "n", "i'", "v", "e", "l", ":", " ", "C", "V", "V", " ", "1", "8", "8", " ", "(", "2",
    "4", "h", ")", " ", "|", " ", "S", "A", "M", "U", " ", "1", "9", "2">>

MsgAceito ==
    <<"a", "c", "e", "i", "t", "o">>

Msg5 ==
    <<"5">>

MsgEmpty == <<>>

MsgOi ==
    <<"o", "i">>

MsgSim ==
    <<"s", "i", "m">>

Msg3 ==
    <<"3">>

MsgReiniciar ==
    <<"r", "e", "i", "n", "i", "c", "i", "a", "r">>

\* upper case and accented: only the normalised text holds a keyword
MsgRisk ==
    <<"N", "A~", "O", " ", "A", "G", "U", "E", "N", "T", "O", " ", "M", "A", "I", "S">>

ReplyPlain ==
    <<"E", "s", "t", "o", "u", " ", "a", "q", "u", "i", " ", "c", "o", "m", " ", "v", "o",
    "c", "e">>

ReplyResume ==
    <<"Q", "u", "e", " ", "b", "o", "m", " ", "[", "R", "E", "T", "O", "M", "A", "R", "_",
    "Q", "U", "E", "S", "T", "I", "O", "N", "A", "R", "I", "O", "]">>



(***************************************************************************)
(* Text primitives: str.strip, str.lower + NFKD + dropping combining marks, *)
(* the substring test `a in b`, str.isdigit and int().                      *)
(***************************************************************************)
IsSpace(c) == c \in {" ", "\n", "\t"}

RECURSIVE LStrip(_)
LStrip(s) == IF s # <<>> /\ IsSpace(Head(s)) THEN LStrip(Tail(s)) ELSE s

RECURSIVE RStrip(_)
RStrip(s) ==
    IF s # <<>> /\ IsSpace(s[Len(s)]) THEN RStrip(SubSeq(s, 1, Len(s) - 1)) ELSE s

Strip(s) == RStrip(LStrip(s))

\* ResponseParser.normalize: text.lower().strip(), NFKD, combining marks dropped
normalize(s) == LET t == Strip(s) IN [i \in 1..Len(t) |-> FoldChar(t[i])]

\* SafetyProtocol.normalize_text: as normalize, without the strip
normalize_text(s) == [i \in 1..Len(s) |-> FoldChar(s[i])]

\* Python's `needle in hay` on strings; the empty string is in every string
Contains(hay, needle) ==
    \E i \in 0..(Len(hay) - Len(needle)) : SubSeq(hay, i + 1, i + Len(needle)) = needle

AnyWordIn(words, text) == \E k \in 1..Len(words) : Contains(text, words[k])

Digits == <<"0", "1", "2", "3", "4", "5", "6", "7", "8", "9">>

DigitValue(c) == CHOOSE d \in 0..9 : Digits[d + 1] = c

IsDigit(s) == s # <<>> /\ \A i \in 1..Len(s) : \E d \in 1..10 : Digits[d] = s[i]

RECURSIVE ToInt(_)
ToInt(s) == IF s = <<>> THEN 0 ELSE 10 * ToInt(SubSeq(s, 1, Len(s) - 1)) + DigitValue(s[Len(s)])

\* message[:500]
Truncate(s) == SubSeq(s, 1, IF Len(s) < MaxTextLen THEN Len(s) ELSE MaxTextLen)

\* index of the first element of a sequence satisfying a test, 0 when none
FirstIndex(n, Test(_)) ==
    LET RECURSIVE From(_)
        From(i) == IF i > n THEN 0 ELSE IF Test(i) THEN i ELSE From(i + 1)
    IN  From(1)

(***************************************************************************)
(* Values: Python's None, an int, or a string.                             *)
(***************************************************************************)
NoneVal == [k |-> "none", n |-> 0, t |-> <<>>]

IntVal(i) == [k |-> "int", n |-> i, t |-> <<>>]

TextVal(s) == [k |-> "text", n |-> 0, t |-> s]

Failure == [success |-> FALSE, value |-> NoneVal]

Success(v) == [success |-> TRUE, value |-> v]

(***************************************************************************)
(* ResponseParser: the deterministic fast path.                            *)
(***************************************************************************)
\* the same reading with the number taken as a zero-based position
parse_multiple_choice_zero_based(message, options) ==
    LET msg == Strip(message)
        emoji == FirstIndex(Len(number_emoji_map), LAMBDA i : number_emoji_map[i] = msg)
        norm == normalize(msg)
        Match(i) == \/ normalize(options[i]) = norm
                    \/ Contains(norm, normalize(options[i]))
                    \/ Contains(normalize(options[i]), norm)
        hit == FirstIndex(Len(options), Match)
    IN  IF emoji # 0 /\ emoji < Len(options) THEN Success(TextVal(options[emoji + 1]))
        ELSE IF IsDigit(msg) /\ 0 <= ToInt(msg) /\ ToInt(msg) < Len(options)
             THEN Success(TextVal(options[ToInt(msg) + 1]))
        ELSE IF hit # 0 THEN Success(TextVal(options[hit]))
        ELSE Failure

parse_multiple_choice(message, options) ==
    LET msg == Strip(message)
        emoji == FirstIndex(Len(number_emoji_map), LAMBDA i : number_emoji_map[i] = msg)
        norm == normalize(msg)
        Match(i) == \/ normalize(options[i]) = norm
                    \/ Contains(norm, normalize(options[i]))
                    \/ Contains(normalize(options[i]), norm)
        hit == FirstIndex(Len(options), Match)
    IN  IF emoji # 0 /\ emoji - 1 < Len(options) THEN Success(TextVal(options[emoji]))
        ELSE IF IsDigit(msg) /\ 0 <= ToInt(msg) - 1 /\ ToInt(msg) - 1 < Len(options)
             THEN Success(TextVal(options[ToInt(msg)]))
        ELSE IF hit # 0 THEN Success(TextVal(options[hit]))
        ELSE Failure

parse_likert(message) ==
    LET msg == Strip(message)
        lit == FirstIndex(Len(LikertLiterals), LAMBDA i : LikertLiterals[i].token = msg)
        norm == normalize(msg)
        Band(v) == \E w \in 1..Len(LikertKeywords[v]) :
                       Contains(norm, normalize(LikertKeywords[v][w]))
        band == FirstIndex(Len(LikertKeywords), Band)
    IN  IF lit # 0 THEN Success(IntVal(LikertLiterals[lit].value))
        ELSE IF band # 0 THEN Success(IntVal(band))
        ELSE Failure

parse_text(message) ==
    LET msg == Strip(message)
    IN  IF Len(msg) > 0 THEN Success(TextVal(Truncate(msg))) ELSE Failure

fast_parse(message, question) ==
    IF question.type = "multiple choice" THEN parse_multiple_choice(message, question.options)
    ELSE IF question.type = "likert" THEN parse_likert(message)
    ELSE parse_text(message)

(***************************************************************************)
(* The questionnaire content file (questionario.json) is not part of the   *)
(* sources; it is modelled from the description of a Question: an id, a    *)
(* type, the options of a multiple-choice question, the required flag,     *)
(* which is set for exactly the ids of the required set, and the dimension *)
(* tag of a Likert question.                                               *)
(***************************************************************************)
required_question_ids == {4, 5, 7}

DimSono == <<"Q", "u", "a", "l", "i", "d", "a", "d", "e", " ", "d", "o", " ", "s", "o", "n", "o", " ", "e", " ", "d", "i", "s", "p", "o", "s", "i", "c,", "a~", "o">>

DimEstresse == <<"E", "s", "t", "r", "e", "s", "s", "e", " ", "e", " ", "a", "n", "s", "i", "e", "d", "a", "d", "e">>

DimAssedio == <<"A", "s", "s", "e'", "d", "i", "o", " ", "m", "o", "r", "a", "l">>

Question(id, type, dimension, options) ==
    [id |-> id, type |-> type, required |-> id \in required_question_ids,
     dimension |-> dimension, options |-> options]

Questionnaire ==
    << Question(1, "likert", DimSono, <<>>),
       Question(2, "likert", DimEstresse, <<>>),
       Question(3, "likert", DimAssedio, <<>>),
       Question(4, "multiple choice", <<>>,
                << <<"M", "a", "t", "r", "i", "z">>, <<"F", "i", "l", "i", "a", "l">>,
                   <<"O", "u", "t", "r", "a">> >>),
       Question(5, "multiple choice", <<>>,
                << <<"P", "r", "o", "d", "u", "c,", "a~", "o">>,
                   <<"A", "d", "m", "i", "n", "i", "s", "t", "r", "a", "t", "i", "v", "o">>,
                   <<"C", "o", "m", "e", "r", "c", "i", "a", "l">> >>),
       Question(6, "likert", DimEstresse, <<>>),
       Question(7, "multiple choice", <<>>,
                << <<"C", "L", "T">>, <<"P", "J">>,
                   <<"E", "s", "t", "a", "g", "i", "a'", "r", "i", "o">> >>),
       Question(8, "likert", DimSono, <<>>),
       Question(9, "text", <<>>, <<>>),
       Question(10, "likert", DimAssedio, <<>>) >>


FollowupQuestion(id) == [id |-> id, type |-> "multiple choice", options |-> FollowupOptions]

FOLLOWUP_QUESTIONS ==
    << FollowupQuestion("A1"), FollowupQuestion("A2"), FollowupQuestion("A3"),
       FollowupQuestion("A4"), FollowupQuestion("A5"), FollowupQuestion("A6") >>

ORIGIN_QUESTIONS ==
    << [id |-> "O1", type |-> "multiple choice", options |-> OriginOptions],
       [id |-> "O2", type |-> "text", options |-> <<>>] >>

(***************************************************************************)
(* Python dicts: a function whose domain is the set of keys present.       *)
(***************************************************************************)
DictGet(d, key, default) == IF key \in DOMAIN d THEN d[key] ELSE default

DictSet(d, key, v) == [x \in (DOMAIN d) \cup {key} |-> IF x = key THEN v ELSE d[x]]

(***************************************************************************)
(* SafetyProtocol: screening, keyword fallback, detailed check.            *)
(***************************************************************************)
\* normalize_text(keyword) of every keyword of every category
normalized_keywords ==
    [i \in 1..Len(EMERGENCY_KEYWORDS) |->
        [k \in 1..Len(EMERGENCY_KEYWORDS[i].keywords) |->
            normalize_text(EMERGENCY_KEYWORDS[i].keywords[k])]]

quick_check(message) ==
    LET msg == normalize_text(message)
        Hit(i) == \E k \in 1..Len(normalized_keywords[i]) :
                      Contains(msg, normalized_keywords[i][k])
        first == FirstIndex(Len(EMERGENCY_KEYWORDS), Hit)
    IN  IF first # 0 THEN [detected |-> TRUE, type |-> EMERGENCY_KEYWORDS[first].type]
        ELSE [detected |-> FALSE, type |-> "none"]

\* llm_screening whose keyword fallback reports a confidence under the threshold
llm_screening_weak_fallback(message, service) ==
    IF service.ok
    THEN [has_risk |-> service.has_risk, type |-> service.type,
          confidence |-> service.confidence, screening_model |-> "llm"]
    ELSE IF quick_check(message).detected
         THEN [has_risk |-> TRUE, type |-> quick_check(message).type,
               confidence |-> 30, screening_model |-> "quick_check"]
         ELSE [has_risk |-> FALSE, type |-> "none",
               confidence |-> 0, screening_model |-> "quick_check"]

\* service: the classifier's reply, [ok |-> FALSE] when the call raised
llm_screening(message, service) ==
    IF service.ok
    THEN [has_risk |-> service.has_risk, type |-> service.type,
          confidence |-> service.confidence, screening_model |-> "llm"]
    ELSE IF quick_check(message).detected
         THEN [has_risk |-> TRUE, type |-> quick_check(message).type,
               confidence |-> 80, screening_model |-> "quick_check"]
         ELSE [has_risk |-> FALSE, type |-> "none",
               confidence |-> 0, screening_model |-> "quick_check"]

\* llm_detailed_check whose fallback confidence does not pass the 0.6 test
llm_detailed_check_weak_fallback(initial_assessment, service) ==
    IF service.ok
    THEN [is_emergency |-> service.is_emergency, type |-> service.type,
          confidence |-> service.confidence,
          initial_safety_score |-> service.initial_safety_score,
          detailed_check_model |-> "llm"]
    ELSE [is_emergency |-> TRUE, type |-> initial_assessment.type,
          confidence |-> 60, initial_safety_score |-> 2 * 3,
          detailed_check_model |-> "error"]

llm_detailed_check(initial_assessment, service) ==
    IF service.ok
    THEN [is_emergency |-> service.is_emergency, type |-> service.type,
          confidence |-> service.confidence,
          initial_safety_score |-> service.initial_safety_score,
          detailed_check_model |-> "llm"]
    ELSE [is_emergency |-> TRUE, type |-> initial_assessment.type,
          confidence |-> 70, initial_safety_score |-> 2 * 3,
          detailed_check_model |-> "error"]

\* the detailed check called on the confidence alone
needs_detailed_check_confidence_only(screening_result) ==
    screening_result.confidence >= SAFETY_CONFIDENCE_THRESHOLD

\* the condition of process_message under which the detailed check is called
needs_detailed_check(screening_result) ==
    screening_result.has_risk /\ screening_result.confidence >= SAFETY_CONFIDENCE_THRESHOLD

\* the condition of process_message under which crisis mode is entered
confirms_emergency(detailed_result) ==
    detailed_result.is_emergency /\ detailed_result.confidence > EMERGENCY_CONFIDENCE

(***************************************************************************)
(* CrisisManager: the participant's active crisis_state row, or NoRow.     *)
(***************************************************************************)
NoRow == [active |-> FALSE, crisis_type |-> "None", safety_score |-> 0,
          interaction_count |-> 0, crisis_history |-> <<>>]

Row(mgr) == [active |-> TRUE, crisis_type |-> mgr.crisis_type,
             safety_score |-> mgr.safety_score,
             interaction_count |-> mgr.interaction_count,
             crisis_history |-> mgr.crisis_history]

NewManager == [crisis_type |-> "None", safety_score |-> 0,
               interaction_count |-> 0, crisis_history |-> <<>>]

IsFalsy(crisis_type) == crisis_type \in {"None", ""}

\* load_crisis_state: the row as it stands after the load (an unset type is
\* corrected to 'unknown' in the row itself)
load_crisis_state_row(row) ==
    IF row.active /\ IsFalsy(row.crisis_type) THEN [row EXCEPT !.crisis_type = "unknown"]
    ELSE row

\* CrisisManager(sender_id, load_existing=True) as load_state and
\* process_message leave it: the type is never left unset in memory
load_manager(row) ==
    LET r == load_crisis_state_row(row)
        m == IF r.active
             THEN [crisis_type |-> r.crisis_type, safety_score |-> r.safety_score,
                   interaction_count |-> r.interaction_count,
                   crisis_history |-> r.crisis_history]
             ELSE NewManager
    IN  IF IsFalsy(m.crisis_type) THEN [m EXCEPT !.crisis_type = "unknown"] ELSE m

\* save_crisis_state: insert, or update of the active row
save_crisis_state(row, mgr) == Row(mgr)

\* end_crisis: the active row, if any, is marked inactive
end_crisis(row) == NoRow

RECURSIVE Replace(_, _)
\* str.replace(signal, "")
Replace(s, signal) ==
    IF Len(s) < Len(signal) \/ signal = <<>> THEN s
    ELSE IF SubSeq(s, 1, Len(signal)) = signal
         THEN Replace(SubSeq(s, Len(signal) + 1, Len(s)), signal)
         ELSE <<Head(s)>> \o Replace(Tail(s), signal)

\* the accepted signal found first, 0 when the reply holds none
resume_signal(reply) ==
    FirstIndex(Len(resume_signals), LAMBDA i : Contains(reply, resume_signals[i]))

\* the same conversation with the resumption forced at the turn count
handle_crisis_conversation_forced_resume(row, mgr, generation) ==
    LET count == mgr.interaction_count + 1
        sig == resume_signal(generation.text)
        can_resume == sig # 0 \/ count >= CRISIS_NOTE_TURNS
        stripped == IF sig # 0 THEN Strip(Replace(generation.text, resume_signals[sig]))
                    ELSE generation.text
        visible == IF can_resume /\ stripped = <<>> THEN DefaultResumeReply ELSE stripped
        row1 == IF can_resume THEN end_crisis(row) ELSE row
        score == IF can_resume THEN 2 * 8
                 ELSE IF mgr.safety_score + 1 < 2 * 6 THEN mgr.safety_score + 1 ELSE 2 * 6
        mgr1 == [mgr EXCEPT !.interaction_count = count,
                            !.crisis_history = @ \o <<"user", "assistant">>,
                            !.safety_score = score]
    IN  IF ~generation.ok
        THEN [row |-> row, can_resume |-> FALSE, response |-> FallbackReply,
              note |-> FALSE, reminder |-> FALSE, failed |-> TRUE,
              mgr |-> [mgr EXCEPT !.interaction_count = count,
                                  !.crisis_history = @ \o <<"user">>]]
        ELSE [row |-> save_crisis_state(row1, mgr1), can_resume |-> can_resume,
              response |-> visible,
              note |-> ~can_resume /\ count >= CRISIS_NOTE_TURNS,
              reminder |-> ~can_resume /\ count % REMINDER_EVERY = 0,
              failed |-> FALSE, mgr |-> mgr1]

\* handle_crisis_conversation.  generation: the dialogue service's reply,
\* [ok |-> FALSE] when the call raised.  Gives the row as left in the
\* datastore, the manager in memory, the visible reply and can_resume.
handle_crisis_conversation(row, mgr, generation) ==
    LET count == mgr.interaction_count + 1
        sig == resume_signal(generation.text)
        can_resume == sig # 0
        stripped == IF can_resume THEN Strip(Replace(generation.text, resume_signals[sig]))
                    ELSE generation.text
        visible == IF can_resume /\ stripped = <<>> THEN DefaultResumeReply ELSE stripped
        row1 == IF can_resume THEN end_crisis(row) ELSE row
        score == IF can_resume THEN 2 * 8
                 ELSE IF mgr.safety_score + 1 < 2 * 6 THEN mgr.safety_score + 1 ELSE 2 * 6
        mgr1 == [mgr EXCEPT !.interaction_count = count,
                            !.crisis_history = @ \o <<"user", "assistant">>,
                            !.safety_score = score]
    IN  IF ~generation.ok
        THEN [row |-> row, can_resume |-> FALSE, response |-> FallbackReply,
              note |-> FALSE, reminder |-> FALSE, failed |-> TRUE,
              mgr |-> [mgr EXCEPT !.interaction_count = count,
                                  !.crisis_history = @ \o <<"user">>]]
        ELSE [row |-> save_crisis_state(row1, mgr1), can_resume |-> can_resume,
              response |-> visible,
              note |-> ~can_resume /\ count >= CRISIS_NOTE_TURNS,
              reminder |-> ~can_resume /\ count % REMINDER_EVERY = 0,
              failed |-> FALSE, mgr |-> mgr1]

(***************************************************************************)
(* ResponseParser.llm_parse: the interpretation fallback.  service is the  *)
(* reply of the interpretation service: the intent analysis and, for an    *)
(* answer, the interpreted value; [ok |-> FALSE] when a call raised.       *)
(***************************************************************************)
Parsed == [success |-> FALSE, value |-> NoneVal, wants_to_skip |-> FALSE,
           is_clarification |-> FALSE, clarification_limit_reached |-> FALSE,
           is_off_topic |-> FALSE, could_not_interpret |-> FALSE,
           llm_used |-> FALSE, error |-> FALSE]

Truthy(v) == \/ v.k = "int" /\ v.n # 0
             \/ v.k = "text" /\ v.t # <<>>

llm_parse(message, question, clarification_count, service) ==
    LET P == [Parsed EXCEPT !.llm_used = TRUE]
    IN  IF ~service.ok THEN [P EXCEPT !.error = TRUE]
        ELSE IF service.intent = "skip_request" \/ service.wants_to_skip
             THEN [P EXCEPT !.wants_to_skip = TRUE]
        ELSE IF service.intent = "question" /\ service.confidence > 60
             THEN IF service.should_insist \/ clarification_count >= CLARIFICATION_LIMIT
                  THEN [P EXCEPT !.is_clarification = TRUE,
                                 !.clarification_limit_reached = TRUE]
                  ELSE [P EXCEPT !.is_clarification = TRUE]
        ELSE IF service.intent = "off_topic" /\ service.confidence > 70
             THEN [P EXCEPT !.is_off_topic = TRUE]
        ELSE IF question.type \in {"likert", "multiple choice"}
             THEN IF Truthy(service.value) /\ service.value_confidence > 70
                  THEN [P EXCEPT !.success = TRUE, !.value = service.value]
                  ELSE [P EXCEPT !.could_not_interpret = TRUE]
        ELSE IF Len(Strip(message)) > 0
             THEN [P EXCEPT !.success = TRUE, !.value = TextVal(Truncate(message))]
             ELSE P

(***************************************************************************)
(* QuestionnaireStateMachine: the participant's questionnaire_state row.   *)
(***************************************************************************)
DefaultSession ==
    [state |-> "welcome", current_question_index |-> 0, phase1_data |-> <<>>,
     followup_data |-> [aprofundamento |-> <<>>, origem_riscos |-> <<>>],
     trigger_dimensions |-> <<>>, attempt_counts |-> <<>>, skipped_questions |-> 0,
     pre_crisis_state |-> "None", pre_crisis_question_index |-> NoneVal]

\* question.copy() as appended to phase1_data, no response yet.  The copy's
\* own fields never change, so the buffer keeps the id and they are read
\* through it
Entry(q) == [id |-> q.id, response |-> AbsentVal, desconsiderada |-> "absent"]

QuestionOf(item) ==
    Questionnaire[CHOOSE i \in 1..Len(Questionnaire) : Questionnaire[i].id = item.id]

NoArchive == [phase |-> "none", phase1 |-> <<>>,
              followups |-> [aprofundamento |-> <<>>, origem_riscos |-> <<>>]]

\* what a handler leaves: the row as last saved, whether reset() ran, the
\* kind of reply, whether llm_parse was called and what the parser made of
\* the message, the document archived
Outcome(s, kind) ==
    [s |-> s, reset |-> FALSE, kind |-> kind, llm_used |-> FALSE, parsed |-> "none",
     archive |-> NoArchive]

\* how the message was read: by the fast path, or by llm_parse
Reading(fast, parsed) ==
    IF fast.success THEN "fast"
    ELSE IF parsed.error THEN "error"
    ELSE IF parsed.wants_to_skip THEN "skip"
    ELSE IF parsed.is_clarification THEN "clarification"
    ELSE IF parsed.is_off_topic THEN "off_topic"
    ELSE IF parsed.could_not_interpret THEN "could_not_interpret"
    ELSE IF parsed.success THEN "answer"
    ELSE "none"

\* reset() that leaves the crisis_state row alone
reset_session_only(kind) == Outcome(DefaultSession, kind)

\* reset(): the row is deleted and saved again with the defaults
reset(kind) == [Outcome(DefaultSession, kind) EXCEPT !.reset = TRUE]

\* enter_crisis_mode taking the snapshot after the state was changed
enter_crisis_mode_late_snapshot(s) ==
    [s EXCEPT !.pre_crisis_state = "emergency",
              !.pre_crisis_question_index = IntVal(s.current_question_index),
              !.state = "emergency"]

enter_crisis_mode(s) ==
    [s EXCEPT !.pre_crisis_state = s.state,
              !.pre_crisis_question_index = IntVal(s.current_question_index),
              !.state = "emergency"]

\* leaving the crisis for the consent prompt when there is no snapshot
exit_crisis_mode_to_consent(s) ==
    IF s.pre_crisis_state # "None"
    THEN [s EXCEPT !.state = s.pre_crisis_state,
                   !.current_question_index = s.pre_crisis_question_index.n,
                   !.pre_crisis_state = "None",
                   !.pre_crisis_question_index = NoneVal]
    ELSE [s EXCEPT !.state = "consent"]

\* leaving the crisis with the trigger dimensions forgotten
exit_crisis_mode_clears_triggers(s) ==
    IF s.pre_crisis_state # "None"
    THEN [s EXCEPT !.state = s.pre_crisis_state,
                   !.current_question_index = s.pre_crisis_question_index.n,
                   !.pre_crisis_state = "None",
                   !.pre_crisis_question_index = NoneVal,
                   !.trigger_dimensions = <<>>]
    ELSE [s EXCEPT !.state = "welcome", !.current_question_index = 0]

\* leaving the crisis with the skip count forgotten
exit_crisis_mode_clears_skips(s) ==
    IF s.pre_crisis_state # "None"
    THEN [s EXCEPT !.state = s.pre_crisis_state,
                   !.current_question_index = s.pre_crisis_question_index.n,
                   !.pre_crisis_state = "None",
                   !.pre_crisis_question_index = NoneVal,
                   !.skipped_questions = 0]
    ELSE [s EXCEPT !.state = "welcome", !.current_question_index = 0]

\* leaving the crisis with the snapshot kept
exit_crisis_mode_keeps_snapshot(s) ==
    IF s.pre_crisis_state # "None"
    THEN [s EXCEPT !.state = s.pre_crisis_state,
                   !.current_question_index = s.pre_crisis_question_index.n]
    ELSE [s EXCEPT !.state = "welcome", !.current_question_index = 0]

exit_crisis_mode(s) ==
    IF s.pre_crisis_state # "None"
    THEN [s EXCEPT !.state = s.pre_crisis_state,
                   !.current_question_index = s.pre_crisis_question_index.n,
                   !.pre_crisis_state = "None",
                   !.pre_crisis_question_index = NoneVal]
    ELSE [s EXCEPT !.state = "welcome", !.current_question_index = 0]

\* get_resume_questionnaire_message: a state it has no message for is sent
\* back to the start
get_resume_questionnaire_message(s) ==
    IF s.state \in {"phase1_questions", "followup_questions", "origin_questions", "consent"}
    THEN s
    ELSE [s EXCEPT !.state = "welcome", !.current_question_index = 0]

(***************************************************************************)
(* do_assessment: per-dimension means of the Likert answers.               *)
(***************************************************************************)
Counted(item) ==
    /\ QuestionOf(item).type = "likert"
    /\ item.desconsiderada # "True"
    /\ item.response.k = "int"

RECURSIVE FirstSeen(_)
\* the dimensions of a sequence of items, each once, in first-seen order
FirstSeen(items) ==
    IF items = <<>> THEN <<>>
    ELSE LET before == FirstSeen(SubSeq(items, 1, Len(items) - 1))
             dim == QuestionOf(items[Len(items)]).dimension
         IN  IF \E i \in 1..Len(before) : before[i] = dim THEN before
             ELSE Append(before, dim)

RECURSIVE Sum(_)
Sum(ns) == IF ns = <<>> THEN 0 ELSE Head(ns) + Sum(Tail(ns))

Scores(items, dim) ==
    LET mine == SelectSeq(items, LAMBDA it : QuestionOf(it).dimension = dim)
    IN  [i \in 1..Len(mine) |-> mine[i].response.n]

IsTarget(dim) ==
    \E i \in 1..Len(target_dimensions) : normalize(target_dimensions[i]) = normalize(dim)

\* the cutoff applied as avg < 3.0
AtRisk_strict(scores) == scores # <<>> /\ Sum(scores) < RISK_CUTOFF * Len(scores)

\* avg <= 3.0, as sum <= 3 * count
AtRisk(scores) == scores # <<>> /\ Sum(scores) <= RISK_CUTOFF * Len(scores)

compute_trigger_dimensions(phase1_data) ==
    LET items == SelectSeq(phase1_data, Counted)
    IN  SelectSeq(FirstSeen(items),
                  LAMBDA dim : IsTarget(dim) /\ AtRisk(Scores(items, dim)))

\* s: the row as saved before the call; archived: whether the archival
\* write succeeded (when it raises, the turn ends in the generic handler
\* and nothing more is saved)
\* get_completion_message with the session kept as it is
get_completion_message_keeps_session(s) == Outcome(s, "completion")

\* get_completion_message: the closing message, after reset() destroyed
\* the session that had just been saved in COMPLETION
get_completion_message(s) == reset("completion")

do_assessment(s, archived) ==
    LET trig == compute_trigger_dimensions(s.phase1_data)
        doc == [NoArchive EXCEPT !.phase = "phase1", !.phase1 = s.phase1_data]
    IN  IF ~archived THEN Outcome(s, "error")
        ELSE IF trig # <<>>
             THEN [Outcome([s EXCEPT !.trigger_dimensions = trig,
                                     !.state = "followup_questions",
                                     !.current_question_index = 0], "followup_intro")
                   EXCEPT !.archive = doc]
        ELSE [get_completion_message([s EXCEPT !.state = "completion"])
              EXCEPT !.archive = doc]

(***************************************************************************)
(* handle_consent                                                          *)
(***************************************************************************)
handle_consent(s, message) ==
    LET normalized == normalize(message)
    IN  IF AnyWordIn(ConsentYesWords, normalized)
        THEN Outcome([s EXCEPT !.state = "phase1_questions",
                               !.phase1_data = <<Entry(Questionnaire[1])>>], "first_question")
        ELSE IF AnyWordIn(ConsentNoWords, normalized) THEN reset("declined")
        ELSE Outcome(s, "reprompt")

(***************************************************************************)
(* handle_phase1_question                                                  *)
(***************************************************************************)
QKey(question) == <<"q", question.id>>

ClarKey(question) == <<"q_clarifications", question.id>>

\* the cursor moved to i; the next question joins the buffer if it is not there
Reveal(s, i) ==
    [s EXCEPT !.current_question_index = i,
              !.phase1_data = IF i < Len(Questionnaire) /\ i >= Len(@)
                              THEN Append(@, Entry(Questionnaire[i + 1])) ELSE @]

\* after the cursor moved: the assessment when the questionnaire is over
Advance(s, kind, archived) ==
    IF s.current_question_index >= Len(Questionnaire)
    THEN do_assessment([s EXCEPT !.state = "assessment"], archived)
    ELSE Outcome(s, kind)

\* the question marked disregarded with its response left unset
Disregard_leaves_response(s, pos) ==
    [s EXCEPT !.phase1_data[pos].desconsiderada = "True",
              !.skipped_questions = @ + 1]

Disregard(s, pos) ==
    [s EXCEPT !.phase1_data[pos].response = NoneVal,
              !.phase1_data[pos].desconsiderada = "True",
              !.skipped_questions = @ + 1]

ValidAnswer(question, value) ==
    IF question.type = "multiple choice"
    THEN \E i \in 1..Len(question.options) : value = TextVal(question.options[i])
    ELSE IF question.type = "likert" THEN value.k = "int" /\ value.n >= 1 /\ value.n <= 5
    ELSE TRUE

\* a skip request honoured without looking at the required flag
skip_requested_any_question(s, question, pos, archived) ==
    IF s.skipped_questions >= MAX_SKIPS THEN reset("skip_limit_reset")
    ELSE Advance(Reveal(Disregard(s, pos), s.current_question_index + 1),
                 "skipped", archived)

\* a skip request refused only when the budget is already exceeded
skip_requested_late_cap(s, question, pos, archived) ==
    IF question.required THEN Outcome(s, "skip_refused")
    ELSE IF s.skipped_questions > MAX_SKIPS THEN reset("skip_limit_reset")
    ELSE Advance(Reveal(Disregard(s, pos), s.current_question_index + 1),
                 "skipped", archived)

\* a skip request, already known to be one
skip_requested(s, question, pos, archived) ==
    IF question.required THEN Outcome(s, "skip_refused")
    ELSE IF s.skipped_questions >= MAX_SKIPS THEN reset("skip_limit_reset")
    ELSE Advance(Reveal(Disregard(s, pos), s.current_question_index + 1),
                 "skipped", archived)

\* could_not_interpret, with the attempts made on this question so far
\* could_not_interpret with both budgets one attempt short
attempt_failed_one_short(s, question, pos, attempts, archived) ==
    IF question.required
    THEN IF attempts + 1 >= MAX_ATTEMPTS_REQUIRED THEN reset("attempts_reset")
         ELSE Outcome(s, "retry")
    ELSE IF attempts + 1 >= MAX_ATTEMPTS_OPTIONAL
         THEN IF Disregard(s, pos).skipped_questions >= MAX_SKIPS
              THEN reset("auto_skip_reset")
              ELSE Advance(Reveal(Disregard(s, pos), s.current_question_index + 1),
                           "auto_skipped", archived)
         ELSE Outcome(s, "retry")

attempt_failed(s, question, pos, attempts, archived) ==
    IF question.required
    THEN IF attempts >= MAX_ATTEMPTS_REQUIRED THEN reset("attempts_reset")
         ELSE Outcome(s, "retry")
    ELSE IF attempts >= MAX_ATTEMPTS_OPTIONAL
         THEN IF Disregard(s, pos).skipped_questions >= MAX_SKIPS
              THEN reset("auto_skip_reset")
              ELSE Advance(Reveal(Disregard(s, pos), s.current_question_index + 1),
                           "auto_skipped", archived)
         ELSE Outcome(s, "retry")

\* an accepted answer that leaves the question's counters as they were
answer_accepted_keeps_counters(s, question, pos, value, archived) ==
    IF ~ValidAnswer(question, value) THEN Outcome(s, "invalid")
    ELSE LET s1 == [s EXCEPT !.phase1_data[pos].response = value,
                             !.phase1_data[pos].desconsiderada = "False",
                             !.current_question_index = @ + 1]
         IN  IF s1.current_question_index >= Len(Questionnaire)
             THEN do_assessment([s1 EXCEPT !.state = "assessment"], archived)
             ELSE Outcome([s1 EXCEPT !.phase1_data =
                                         Append(@, Entry(Questionnaire[s1.current_question_index + 1]))],
                          "recorded")

answer_accepted(s, question, pos, value, archived) ==
    IF ~ValidAnswer(question, value) THEN Outcome(s, "invalid")
    ELSE LET s1 == [s EXCEPT !.phase1_data[pos].response = value,
                             !.phase1_data[pos].desconsiderada = "False",
                             !.attempt_counts =
                                 DictSet(DictSet(@, QKey(question), 0), ClarKey(question), 0),
                             !.current_question_index = @ + 1]
         IN  IF s1.current_question_index >= Len(Questionnaire)
             THEN do_assessment([s1 EXCEPT !.state = "assessment"], archived)
             ELSE Outcome([s1 EXCEPT !.phase1_data =
                                         Append(@, Entry(Questionnaire[s1.current_question_index + 1]))],
                          "recorded")

handle_phase1_question(s, message, service, archived) ==
    IF s.current_question_index >= Len(Questionnaire)
    THEN do_assessment([s EXCEPT !.state = "assessment"], archived)
    ELSE IF s.current_question_index >= Len(s.phase1_data) THEN Outcome(s, "error")
    ELSE
    LET pos == s.current_question_index + 1
        question == QuestionOf(s.phase1_data[pos])
        attempts == DictGet(s.attempt_counts, QKey(question), 0) + 1
        clarification_count == DictGet(s.attempt_counts, ClarKey(question), 0)
        s1 == [s EXCEPT !.attempt_counts = DictSet(@, QKey(question), attempts)]
        fast == fast_parse(message, question)
        parsed == llm_parse(message, question, clarification_count, service)
        result ==
            IF fast.success THEN answer_accepted(s1, question, pos, fast.value, archived)
            ELSE IF parsed.wants_to_skip THEN skip_requested(s1, question, pos, archived)
            ELSE IF parsed.is_clarification
                 THEN Outcome([s1 EXCEPT !.attempt_counts =
                                   DictSet(@, ClarKey(question), clarification_count + 1)],
                              IF parsed.clarification_limit_reached THEN "insisted"
                              ELSE "clarified")
            ELSE IF parsed.is_off_topic THEN Outcome(s1, "off_topic")
            ELSE IF parsed.could_not_interpret
                 THEN attempt_failed(s1, question, pos, attempts, archived)
            ELSE IF parsed.success
                 THEN answer_accepted(s1, question, pos, parsed.value, archived)
            ELSE Outcome(s1, "fallback")
    IN  [result EXCEPT !.llm_used = ~fast.success, !.parsed = Reading(fast, parsed)]

(***************************************************************************)
(* handle_followup_questions                                               *)
(***************************************************************************)
FollowupClarKey(pos) == <<"followup_clarifications", pos>>

\* the handler with the cursor left where it is when the phase ends
handle_followup_questions_keeps_cursor(s, message, service) ==
    IF s.current_question_index >= Len(FOLLOWUP_QUESTIONS) THEN Outcome(s, "empty")
    ELSE
    LET pos == s.current_question_index + 1
        question == FOLLOWUP_QUESTIONS[pos]
        clarification_count == DictGet(s.attempt_counts, FollowupClarKey(pos), 0)
        fast == parse_multiple_choice(message, question.options)
        parsed == llm_parse(message, question, clarification_count, service)
        value == IF fast.success THEN fast.value ELSE parsed.value
        s1 == [s EXCEPT !.followup_data.aprofundamento =
                            Append(@, [id |-> question.id, response |-> value]),
                        !.attempt_counts = DictSet(@, FollowupClarKey(pos), 0),
                        !.current_question_index = @ + 1]
        result ==
            IF ~fast.success /\ parsed.is_clarification
            THEN Outcome([s EXCEPT !.attempt_counts =
                              DictSet(@, FollowupClarKey(pos), clarification_count + 1)],
                         IF parsed.clarification_limit_reached THEN "insisted"
                         ELSE "clarified")
            ELSE IF ~fast.success /\ parsed.is_off_topic THEN Outcome(s, "off_topic")
            ELSE IF fast.success \/ parsed.success
                 THEN IF ~ValidAnswer(question, value) THEN Outcome(s, "invalid")
                      ELSE IF s1.current_question_index >= Len(FOLLOWUP_QUESTIONS)
                           THEN Outcome([s1 EXCEPT !.state = "origin_questions"],
                                        "origin_intro")
                           ELSE Outcome(s1, "recorded")
            ELSE Outcome(s, "reprompt")
    IN  [result EXCEPT !.llm_used = ~fast.success, !.parsed = Reading(fast, parsed)]

handle_followup_questions(s, message, service) ==
    IF s.current_question_index >= Len(FOLLOWUP_QUESTIONS) THEN Outcome(s, "empty")
    ELSE
    LET pos == s.current_question_index + 1
        question == FOLLOWUP_QUESTIONS[pos]
        clarification_count == DictGet(s.attempt_counts, FollowupClarKey(pos), 0)
        fast == parse_multiple_choice(message, question.options)
        parsed == llm_parse(message, question, clarification_count, service)
        value == IF fast.success THEN fast.value ELSE parsed.value
        s1 == [s EXCEPT !.followup_data.aprofundamento =
                            Append(@, [id |-> question.id, response |-> value]),
                        !.attempt_counts = DictSet(@, FollowupClarKey(pos), 0),
                        !.current_question_index = @ + 1]
        result ==
            IF ~fast.success /\ parsed.is_clarification
            THEN Outcome([s EXCEPT !.attempt_counts =
                              DictSet(@, FollowupClarKey(pos), clarification_count + 1)],
                         IF parsed.clarification_limit_reached THEN "insisted"
                         ELSE "clarified")
            ELSE IF ~fast.success /\ parsed.is_off_topic THEN Outcome(s, "off_topic")
            ELSE IF fast.success \/ parsed.success
                 THEN IF ~ValidAnswer(question, value) THEN Outcome(s, "invalid")
                      ELSE IF s1.current_question_index >= Len(FOLLOWUP_QUESTIONS)
                           THEN Outcome([s1 EXCEPT !.state = "origin_questions",
                                                   !.current_question_index = 0],
                                        "origin_intro")
                           ELSE Outcome(s1, "recorded")
            ELSE Outcome(s, "reprompt")
    IN  [result EXCEPT !.llm_used = ~fast.success, !.parsed = Reading(fast, parsed)]

(***************************************************************************)
(* handle_origin_questions                                                 *)
(***************************************************************************)
\* the phase is over: the follow-up data is archived and the session completes
finish_origin(s, archived) ==
    IF ~archived THEN Outcome(s, "error")
    ELSE [get_completion_message([s EXCEPT !.state = "completion"]) EXCEPT
              !.archive = [NoArchive EXCEPT !.phase = "followups",
                                            !.followups = s.followup_data]]

\* the handler filing every answer under the first trigger dimension
handle_origin_questions_first_dimension(s, message, service, archived) ==
    LET dim_index == s.current_question_index \div 2
        q_index == s.current_question_index % 2
    IN  IF dim_index >= Len(s.trigger_dimensions) THEN finish_origin(s, archived)
        ELSE
        LET current_dim == s.trigger_dimensions[1]
            question == ORIGIN_QUESTIONS[q_index + 1]
            fast == parse_multiple_choice(message, question.options)
            parsed == llm_parse(message, question, 0, service)
            llm_used == q_index = 0 /\ ~fast.success
            response_value ==
                IF q_index = 0 THEN (IF fast.success THEN fast.value ELSE parsed.value)
                ELSE TextVal(Truncate(message))
            answers == DictGet(s.followup_data.origem_riscos, current_dim, <<>>)
            s1 == [s EXCEPT !.followup_data.origem_riscos =
                                DictSet(@, current_dim,
                                        Append(answers, [id |-> question.id,
                                                         response |-> response_value])),
                            !.current_question_index = @ + 1]
            result ==
                IF llm_used /\ parsed.is_clarification THEN Outcome(s, "clarified")
                ELSE IF llm_used /\ ~parsed.success THEN Outcome(s, "reprompt")
                ELSE IF s1.current_question_index \div 2 >= Len(s.trigger_dimensions)
                     THEN finish_origin(s1, archived)
                     ELSE Outcome(s1, "recorded")
        IN  [result EXCEPT !.llm_used = llm_used,
                           !.parsed = IF q_index = 0 THEN Reading(fast, parsed) ELSE "none"]

handle_origin_questions(s, message, service, archived) ==
    LET dim_index == s.current_question_index \div 2
        q_index == s.current_question_index % 2
    IN  IF dim_index >= Len(s.trigger_dimensions) THEN finish_origin(s, archived)
        ELSE
        LET current_dim == s.trigger_dimensions[dim_index + 1]
            question == ORIGIN_QUESTIONS[q_index + 1]
            fast == parse_multiple_choice(message, question.options)
            parsed == llm_parse(message, question, 0, service)
            llm_used == q_index = 0 /\ ~fast.success
            response_value ==
                IF q_index = 0 THEN (IF fast.success THEN fast.value ELSE parsed.value)
                ELSE TextVal(Truncate(message))
            answers == DictGet(s.followup_data.origem_riscos, current_dim, <<>>)
            s1 == [s EXCEPT !.followup_data.origem_riscos =
                                DictSet(@, current_dim,
                                        Append(answers, [id |-> question.id,
                                                         response |-> response_value])),
                            !.current_question_index = @ + 1]
            result ==
                IF llm_used /\ parsed.is_clarification THEN Outcome(s, "clarified")
                ELSE IF llm_used /\ ~parsed.success THEN Outcome(s, "reprompt")
                ELSE IF s1.current_question_index \div 2 >= Len(s.trigger_dimensions)
                     THEN finish_origin(s1, archived)
                     ELSE Outcome(s1, "recorded")
        IN  [result EXCEPT !.llm_used = llm_used,
                           !.parsed = IF q_index = 0 THEN Reading(fast, parsed) ELSE "none"]

(***************************************************************************)
(* The environment: inbound messages and the replies of the language       *)
(* services, [ok |-> FALSE] standing for a call that raised.               *)
(***************************************************************************)
ScreeningFails == [ok |-> FALSE, has_risk |-> FALSE, type |-> "none", confidence |-> 0]

ScreeningReply(has_risk, type, confidence) ==
    [ok |-> TRUE, has_risk |-> has_risk, type |-> type, confidence |-> confidence]

DetailedFails ==
    [ok |-> FALSE, is_emergency |-> FALSE, type |-> "None", confidence |-> 0,
     initial_safety_score |-> 0]

DetailedReply(is_emergency, type, confidence, score) ==
    [ok |-> TRUE, is_emergency |-> is_emergency, type |-> type,
     confidence |-> confidence, initial_safety_score |-> score]

GenerationFails == [ok |-> FALSE, text |-> <<>>]

Generation(text) == [ok |-> TRUE, text |-> text]

ParseFails ==
    [ok |-> FALSE, intent |-> "answer", confidence |-> 0, wants_to_skip |-> FALSE,
     should_insist |-> FALSE, value |-> NoneVal, value_confidence |-> 0]

Intent(intent, confidence, should_insist) ==
    [ParseFails EXCEPT !.ok = TRUE, !.intent = intent, !.confidence = confidence,
                       !.should_insist = should_insist]

Interpreted(value, value_confidence) ==
    [ParseFails EXCEPT !.ok = TRUE, !.confidence = 90, !.value = value,
                       !.value_confidence = value_confidence]

Messages == {MsgAceito, Msg3, MsgReiniciar, MsgRisk}

ScreeningReplies ==
    {ScreeningFails, ScreeningReply(FALSE, "none", 90),
     ScreeningReply(TRUE, "suicide", 30), ScreeningReply(TRUE, "suicide", 40)}

DetailedReplies ==
    {DetailedFails, DetailedReply(TRUE, "suicide", 80, 2 * 7),
     DetailedReply(TRUE, "suicide", 60, 2 * 3), DetailedReply(FALSE, "suicide", 90, 2 * 3)}

Generations ==
    {GenerationFails, Generation(ReplyPlain), Generation(ReplyResume)}

ParseReplies == {Interpreted(IntVal(3), 90)}

ArchiveOutcomes == BOOLEAN

\* the passes that can be in flight at once, all participants together
MaxInFlight == 2

\* the passes followed from the first message on
MaxPasses == 5

(***************************************************************************)
(* The datastore, and what the last pass of process_message did.           *)
(***************************************************************************)
VARIABLES session, crisis, turn, call, stored, machines, saved

vars == <<session, crisis, turn, call, stored, machines, saved>>

\* call: a parser function applied on its own, outside a pass: its
\* arguments and what it returned
NoCall == [fn |-> "none", message |-> <<>>, options |-> <<>>, result |-> Failure]

NoScreening == [has_risk |-> FALSE, type |-> "none", confidence |-> 0,
                screening_model |-> "none"]

NoDetailed == [is_emergency |-> FALSE, type |-> "None", confidence |-> 0,
               initial_safety_score |-> 0, detailed_check_model |-> "none"]

\* log_interaction: the record inserted into questionnaire_logs, both state
\* columns read from the machine at the time of the call
log_interaction(s) == [written |-> TRUE, state_before |-> s.state, state_after |-> s.state]

NoTurn ==
    [op |-> "none", state_before |-> "welcome", index_before |-> 0,
     message |-> <<>>, screened |-> FALSE, screening |-> NoScreening,
     detailed |-> FALSE, detailed_result |-> NoDetailed, opened |-> FALSE,
     can_resume |-> FALSE, failed |-> FALSE, note |-> FALSE, reminder |-> FALSE,
     generated |-> <<>>, response |-> <<>>, kind |-> "none", llm_used |-> FALSE, parsed |-> "none",
     explained |-> 0, reset |-> FALSE,
     log |-> [written |-> FALSE, state_before |-> "None", state_after |-> "None"],
     archive |-> NoArchive]

\* stored, machines, saved: the rows of several participants, the machines
\* built for messages whose passes have not ended yet, and the last pass
\* that ended.  A machine holds the rows as load_state read them, and
\* whether it was the only one of its participant from its load on.
Senders == {"s1", "s2"}

NoMachine == [busy |-> FALSE, sender |-> "none", s |-> DefaultSession, c |-> NoRow,
              alone |-> TRUE]

\* no pass in flight, no row stored yet
Quiet ==
    /\ stored = [p \in Senders |-> [session |-> DefaultSession, crisis |-> NoRow]]
    /\ machines = [k \in 1..MaxInFlight |-> NoMachine]
    /\ saved = [n |-> 0, sender |-> "none", alone |-> TRUE, kind |-> "none",
                loaded |-> [session |-> DefaultSession, crisis |-> NoRow],
                before |-> [session |-> DefaultSession, crisis |-> NoRow],
                after |-> [session |-> DefaultSession, crisis |-> NoRow]]

Init ==
    /\ session = DefaultSession
    /\ crisis = NoRow
    /\ turn = NoTurn
    /\ call = NoCall
    /\ Quiet

IsRestart(message) == AnyWordIn(RestartWords, normalize(message))

\* the crisis row after load_state built the machine for this pass
Loaded == IF session.state = "emergency" THEN load_crisis_state_row(crisis) ELSE crisis

\* steps 1 and 2 of process_message: screening, then the detailed check
Gate(message, screening_service, detailed_service) ==
    LET screening_result == llm_screening(message, screening_service)
        need == needs_detailed_check(screening_result)
        detailed_result == llm_detailed_check(screening_result, detailed_service)
    IN  [screening |-> screening_result, detailed |-> need,
         detailed_result |-> IF need THEN detailed_result ELSE NoDetailed,
         opens |-> need /\ confirms_emergency(detailed_result)]

\* the outcomes of the gate over the replies the services can give
Gates(message, SS, DS) ==
    {Gate(message, screening_service, detailed_service) :
        screening_service \in SS, detailed_service \in DS}

Before(op, message) ==
    [NoTurn EXCEPT !.op = op, !.state_before = session.state,
                   !.index_before = session.current_question_index,
                   !.message = message]

Screened(op, message, gate) ==
    [Before(op, message) EXCEPT !.screened = TRUE, !.screening = gate.screening,
                                !.detailed = gate.detailed,
                                !.detailed_result = gate.detailed_result]

WithinBounds(s) ==
    \A key \in DOMAIN s.attempt_counts :
        s.attempt_counts[key] <= (IF key[1] = "q" THEN MaxAttempts ELSE MaxClarifications)

(***************************************************************************)
(* process_message: one action per branch, each a whole pass from the load *)
(* of the participant's rows to the last save.                             *)
(***************************************************************************)
\* the restart command, checked before anything else
Restart(M) ==
    \E message \in M :
        /\ IsRestart(message)
        /\ LET out == reset("restart")
           IN  /\ session' = out.s
               /\ crisis' = IF out.reset THEN end_crisis(Loaded) ELSE Loaded
               /\ turn' = [Before("restart", message) EXCEPT
                               !.kind = out.kind, !.reset = out.reset,
                               !.log = IF session.state = "emergency"
                                       THEN log_interaction(session) ELSE @]
               /\ UNCHANGED <<call, stored, machines, saved>>

\* a message while the session is in EMERGENCY
CrisisTurn(M, G, max_turns) ==
    /\ session.state = "emergency"
    /\ load_manager(crisis).interaction_count < max_turns
    /\ \E message \in M, generation \in G :
        /\ ~IsRestart(message)
        /\ LET conv == handle_crisis_conversation(Loaded, load_manager(crisis), generation)
               resumed == get_resume_questionnaire_message(exit_crisis_mode(session))
           IN  /\ session' = IF conv.can_resume THEN resumed ELSE session
               /\ crisis' = conv.row
               /\ turn' = [Before("crisis", message) EXCEPT
                               !.can_resume = conv.can_resume, !.failed = conv.failed,
                               !.note = conv.note, !.reminder = conv.reminder,
                               !.generated = generation.text,
                               !.response = conv.response,
                               !.log = log_interaction(session)]
               /\ UNCHANGED <<call, stored, machines, saved>>

\* a message the safety gate confirms as an emergency: the episode opens
\* and the same message is its first crisis turn
Escalate(M, SS, DS, G) ==
    /\ session.state # "emergency"
    /\ \E message \in M :
        /\ ~IsRestart(message)
        /\ \E gate \in Gates(message, SS, DS) :
           LET manager == [NewManager EXCEPT
                               !.crisis_type = gate.detailed_result.type,
                               !.safety_score = gate.detailed_result.initial_safety_score]
           IN  /\ gate.opens
               /\ \E generation \in G :
                  LET conv == handle_crisis_conversation(
                                  save_crisis_state(crisis, manager), manager, generation)
                  IN  /\ session' = enter_crisis_mode(session)
                      /\ crisis' = conv.row
                      /\ turn' = [Screened("escalate", message, gate) EXCEPT
                                      !.opened = TRUE,
                                      !.can_resume = conv.can_resume,
                                      !.failed = conv.failed, !.note = conv.note,
                                      !.reminder = conv.reminder,
                                      !.generated = generation.text,
                                      !.response = conv.response,
                                      !.log = log_interaction(enter_crisis_mode(session))]
                      /\ UNCHANGED <<call, stored, machines, saved>>

\* the end of a pass the safety gate let through to the questionnaire
\* the explanations relayed in a row, this pass included, on the question
\* that was pending when the message came
Explained(kind) ==
    LET before == IF /\ turn.op = "questionnaire"
                     /\ turn.state_before = session.state
                     /\ turn.index_before = session.current_question_index
                  THEN turn.explained ELSE 0
    IN  IF kind = "clarified" THEN before + 1 ELSE 0

Conclude(SS, DS, message, out) ==
    /\ WithinBounds(out.s)
    /\ Explained(out.kind) <= MaxExplained
    /\ \E gate \in Gates(message, SS, DS) :
           /\ ~gate.opens
           /\ session' = out.s
           /\ crisis' = IF out.reset THEN end_crisis(crisis) ELSE crisis
           /\ turn' = [Screened("questionnaire", message, gate) EXCEPT
                           !.kind = out.kind, !.llm_used = out.llm_used,
                           !.parsed = out.parsed, !.reset = out.reset,
                           !.explained = Explained(out.kind),
                           !.log = log_interaction(out.s),
                           !.archive = out.archive]
           /\ UNCHANGED <<call, stored, machines, saved>>

Welcome(M, SS, DS) ==
    /\ session.state = "welcome"
    /\ \E message \in M :
           /\ ~IsRestart(message)
           /\ Conclude(SS, DS, message,
                       Outcome([session EXCEPT !.state = "consent"], "welcome"))

Consent(M, SS, DS) ==
    /\ session.state = "consent"
    /\ \E message \in M :
           /\ ~IsRestart(message)
           /\ Conclude(SS, DS, message, handle_consent(session, message))

Phase1(M, SS, DS, PS, AR) ==
    /\ session.state = "phase1_questions"
    /\ \E message \in M :
           /\ ~IsRestart(message)
           /\ \E out \in {handle_phase1_question(session, message, service, archived) :
                             service \in PS, archived \in AR} :
                  Conclude(SS, DS, message, out)

Assessment(M, SS, DS, AR) ==
    /\ session.state = "assessment"
    /\ \E message \in M :
           /\ ~IsRestart(message)
           /\ \E archived \in AR :
                  Conclude(SS, DS, message, do_assessment(session, archived))

Followup(M, SS, DS, PS) ==
    /\ session.state = "followup_questions"
    /\ \E message \in M :
           /\ ~IsRestart(message)
           /\ \E out \in {handle_followup_questions(session, message, service) :
                             service \in PS} :
                  Conclude(SS, DS, message, out)

Origin(M, SS, DS, PS, AR) ==
    /\ session.state = "origin_questions"
    /\ \E message \in M :
           /\ ~IsRestart(message)
           /\ \E out \in {handle_origin_questions(session, message, service, archived) :
                             service \in PS, archived \in AR} :
                  Conclude(SS, DS, message, out)

Next ==
    \/ Restart(Messages)
    \/ CrisisTurn(Messages, Generations, MaxCrisisTurns)
    \/ Escalate(Messages, ScreeningReplies, DetailedReplies, Generations)
    \/ Welcome(Messages, ScreeningReplies, DetailedReplies)
    \/ Consent(Messages, ScreeningReplies, DetailedReplies)
    \/ Phase1(Messages, ScreeningReplies, DetailedReplies, ParseReplies, ArchiveOutcomes)
    \/ Assessment(Messages, ScreeningReplies, DetailedReplies, ArchiveOutcomes)
    \/ Followup(Messages, ScreeningReplies, DetailedReplies, ParseReplies)
    \/ Origin(Messages, ScreeningReplies, DetailedReplies, ParseReplies, {TRUE})

Spec == Init /\ [][Next]_vars

(***************************************************************************)
(* The questionnaire alone, with a participant who answers 5, accepts, or  *)
(* sends nothing, and an interpretation service that reads a message it is *)
(* shown as a skip request or as the answer 5.  No message is screened as  *)
(* a risk and every archival write succeeds, so no dimension is triggered  *)
(* and the questionnaire completes after the first phase.                  *)
(***************************************************************************)
SkipMessages == {MsgAceito, Msg5, MsgEmpty, MsgReiniciar}

CalmScreening == {ScreeningReply(FALSE, "none", 90)}

SpecSkips ==
    Init /\ [][\/ Restart(SkipMessages)
               \/ Welcome(SkipMessages, CalmScreening, {DetailedFails})
               \/ Consent(SkipMessages, CalmScreening, {DetailedFails})
               \/ Phase1(SkipMessages, CalmScreening, {DetailedFails},
                         {Intent("skip_request", 90, FALSE),
                          [Intent("answer", 90, FALSE) EXCEPT !.wants_to_skip = TRUE],
                          Interpreted(IntVal(5), 90)},
                         {TRUE})]_vars

(***************************************************************************)
(* do_assessment over the answers of a finished first phase: Init draws a  *)
(* Likert answer, or a skip, for every Likert question.                    *)
(***************************************************************************)
\* the answers explored for one Likert question: a score, or disregarded
LikertAnswers == {IntVal(2), IntVal(3), IntVal(4), IntVal(5), NoneVal}

LikertPositions == {i \in 1..Len(Questionnaire) : Questionnaire[i].type = "likert"}

Answered(q, value) ==
    [id |-> q.id, response |-> value,
     desconsiderada |-> IF value = NoneVal THEN "True" ELSE "False"]

\* the buffer of a finished first phase, given its Likert answers
FinishedBuffer(answers) ==
    [i \in 1..Len(Questionnaire) |->
        Answered(Questionnaire[i],
                 IF i \in LikertPositions THEN answers[i]
                 ELSE IF Questionnaire[i].type = "text" THEN TextVal(MsgAceito)
                 ELSE TextVal(Questionnaire[i].options[1]))]

\* the questions a finished buffer holds as disregarded
SkippedIn(buffer) == {i \in 1..Len(buffer) : buffer[i].desconsiderada = "True"}

\* attempt_counts after the first phase: an accepted answer leaves both
\* counters of its question at 0, a skip request leaves the attempt it counted
AttemptsAfter(buffer) ==
    [key \in {QKey(Questionnaire[i]) : i \in 1..Len(buffer)}
              \cup {ClarKey(Questionnaire[i]) : i \in (1..Len(buffer)) \ SkippedIn(buffer)}
        |-> IF \E i \in SkippedIn(buffer) : key = QKey(Questionnaire[i]) THEN 1 ELSE 0]

\* the row a first phase leaves when its archival write raised: the state
\* ASSESSMENT was saved before do_assessment ran, the answers are all there
\* and at most MAX_SKIPS questions were skipped
InitAssessment ==
    /\ \E answers \in [LikertPositions -> LikertAnswers] :
           LET buffer == FinishedBuffer(answers)
           IN  /\ Cardinality(SkippedIn(buffer)) <= MAX_SKIPS
               /\ session = [DefaultSession EXCEPT
                                 !.state = "assessment",
                                 !.current_question_index = Len(Questionnaire),
                                 !.phase1_data = buffer,
                                 !.attempt_counts = AttemptsAfter(buffer),
                                 !.skipped_questions = Cardinality(SkippedIn(buffer))]
    /\ crisis = NoRow
    /\ turn = NoTurn
    /\ call = NoCall
    /\ Quiet

SpecAssessment ==
    InitAssessment /\ [][Assessment({Msg3}, CalmScreening, {DetailedFails}, {TRUE})]_vars
(***************************************************************************)
(* The crisis overlay over a long episode: every message is screened as a  *)
(* risk, the detailed check dismisses it or confirms it with one of        *)
(* several types and initial scores, and an episode runs past the turn     *)
(* after which the note is appended.                                       *)
(***************************************************************************)
\* turns of one long crisis episode
MaxLongCrisisTurns == 11

CrisisMessages == {MsgOi, MsgAceito, MsgReiniciar}

RiskScreening == {ScreeningReply(TRUE, "suicide", 90)}

\* the detailed check dismisses, or confirms with a type (or none) and an
\* initial score of 0, 3, 7 or 10
CrisisDetailedReplies ==
    {DetailedReply(FALSE, "suicide", 90, 2 * 3),
     DetailedReply(TRUE, "None", 80, 2 * 3),
     DetailedReply(TRUE, "suicide", 80, 2 * 0),
     DetailedReply(TRUE, "violence", 80, 2 * 7),
     DetailedReply(TRUE, "suicide", 80, 2 * 10)}

CrisisGenerations ==
    {GenerationFails, Generation(ReplyPlain), Generation(ReplyResume),
     \* a reply that is a sentinel variant and nothing else
     Generation(<<"[", "R", "E", "T", "O", "M", "A", "R", " ", "Q", "U", "E",
                "S", "T", "I", "O", "N", "A'", "R", "I", "O", "]">>),
     \* a reply that ends with two different sentinel variants
     Generation(<<"V", "a", "m", "o", "s", " ", "[", "R", "E", "T", "O", "M",
                "A", "R", " ", "Q", "U", "E", "S", "T", "I", "O", "N", "A",
                "R", "I", "O", "]", " ", "[", "R", "E", "T", "O", "M", "A",
                "R", "_", "Q", "U", "E", "S", "T", "I", "O", "N", "A", "R",
                "I", "O", "]">>)}

SpecCrisis ==
    Init /\ [][\/ Restart(CrisisMessages)
               \/ CrisisTurn(CrisisMessages, CrisisGenerations, MaxLongCrisisTurns)
               \/ Escalate(CrisisMessages, RiskScreening, CrisisDetailedReplies,
                           CrisisGenerations)
               \/ Welcome(CrisisMessages, RiskScreening, CrisisDetailedReplies)
               \/ Consent(CrisisMessages, RiskScreening, CrisisDetailedReplies)
               \/ Phase1(CrisisMessages, RiskScreening, CrisisDetailedReplies,
                         ParseReplies, {TRUE})]_vars

(***************************************************************************)
(* The fast path of the parser.  Before the conversation starts, the       *)
(* multiple-choice parser or the Likert parser is applied on its own to a  *)
(* token and an option list; otherwise the participant goes through the    *)
(* first phase with tokens the fast path reads and greetings it does not,  *)
(* and the interpretation service is down.                                 *)
(***************************************************************************)
\* options of a probed list
MaxOptions == 9

\* the plain ordinal k, and the numeric emoji of k: digit, variation
\* selector, keycap
Ordinal(k) ==
    IF k < 10 THEN <<Digits[k + 1]>>
    ELSE <<Digits[(k \div 10) + 1], Digits[(k % 10) + 1]>>

NumberEmoji(k) == <<Digits[k + 1], "VS16", "KEYCAP">>

\* the scale labels shown under a Likert question
LikertLabels ==
    << <<"D", "i", "s", "c", "o", "r", "d", "o", " ", "t", "o", "t", "a", "l", "m", "e", "n", "t", "e">>,
       <<"D", "i", "s", "c", "o", "r", "d", "o">>,
       <<"N", "e", "u", "t", "r", "o">>,
       <<"C", "o", "n", "c", "o", "r", "d", "o">>,
       <<"C", "o", "n", "c", "o", "r", "d", "o", " ", "t", "o", "t", "a", "l", "m", "e", "n", "t", "e">> >>

\* ordinals and numeric emoji, padded and out of range, a greeting, the
\* empty message, and the words a participant copies from the question:
\* the options of the fixed lists, the scale labels, the Likert keywords
Tokens ==
    {Ordinal(k) : k \in 0..9} \cup {NumberEmoji(k) : k \in 1..9}
        \cup {<<" ">> \o Ordinal(2) \o <<" ">>, Ordinal(10), MsgOi, MsgEmpty}
        \cup {FollowupOptions[i] : i \in 1..Len(FollowupOptions)}
        \cup {OriginOptions[i] : i \in 1..Len(OriginOptions)}
        \cup {LikertLabels[v] : v \in 1..Len(LikertLabels)}
        \cup UNION {{LikertKeywords[v][w] : w \in 1..Len(LikertKeywords[v])} :
                        v \in 1..Len(LikertKeywords)}

\* a parser applied on its own, before the first message, to a list of one
\* to MaxOptions one-letter options or to one of the fixed lists
Probe ==
    /\ call = NoCall /\ turn = NoTurn
    /\ \E message \in Tokens :
           \/ \E options \in
                  {SubSeq(<< <<"A">>, <<"B">>, <<"C">>, <<"D">>, <<"E">>, <<"F">>, <<"G">>,
                             <<"H">>, <<"I">>, <<"J">>, <<"K">> >>, 1, n) :
                      n \in 1..MaxOptions} \cup {FollowupOptions, OriginOptions} :
                  call' = [fn |-> "parse_multiple_choice", message |-> message,
                           options |-> options,
                           result |-> parse_multiple_choice(message, options)]
           \/ call' = [fn |-> "parse_likert", message |-> message, options |-> <<>>,
                       result |-> parse_likert(message)]
    /\ UNCHANGED <<session, crisis, turn, stored, machines, saved>>

\* the messages of the conversation; none once a parser was probed
AnswerMessages ==
    IF call = NoCall THEN {MsgOi, MsgSim, Msg3, NumberEmoji(2)} ELSE {}

SpecParser ==
    Init /\ [][\/ Probe
               \/ Welcome(AnswerMessages, CalmScreening, {DetailedFails})
               \/ Consent(AnswerMessages, CalmScreening, {DetailedFails})
               \/ Phase1(AnswerMessages, CalmScreening, {DetailedFails}, {ParseFails},
                         {TRUE})]_vars

(***************************************************************************)
(* A questionnaire answered to its end, with no crisis on the way: the     *)
(* Likert answers are 3 or 5, and the archival write may fail wherever it  *)
(* is made.                                                                *)
(***************************************************************************)
SpecCompletion ==
    Init /\ [][\/ Welcome({Msg3}, CalmScreening, {DetailedFails})
               \/ Consent({MsgAceito}, CalmScreening, {DetailedFails})
               \/ Phase1({MsgAceito, Msg3, Msg5}, CalmScreening, {DetailedFails},
                         ParseReplies, ArchiveOutcomes)
               \/ Assessment({Msg3}, CalmScreening, {DetailedFails}, ArchiveOutcomes)
               \/ Followup({Msg3}, CalmScreening, {DetailedFails}, ParseReplies)
               \/ Origin({Msg3}, CalmScreening, {DetailedFails}, ParseReplies,
                         ArchiveOutcomes)]_vars

(***************************************************************************)
(* The first phase with a participant who answers "3" or, on the questions *)
(* of a chosen set, sends a reply the fast path cannot read ("oi").        *)
(***************************************************************************)
\* the question the first phase is waiting on, id 0 outside the first phase
PendingId ==
    IF session.state = "phase1_questions"
           /\ session.current_question_index < Len(session.phase1_data)
    THEN session.phase1_data[session.current_question_index + 1].id
    ELSE 0

\* the interpretation service finds no value in the message
CouldNotInterpret == Interpreted(NoneVal, 0)

(***************************************************************************)
(* Consent given, refused or neither, then unreadable replies on the first *)
(* optional and the first required question, with an interpretation        *)
(* service that fails, or reads the message as a skip request, a question, *)
(* an off-topic remark or nothing it can interpret.                        *)
(***************************************************************************)
BudgetMessages == IF PendingId \in {1, 4} THEN {MsgOi, Msg3} ELSE {Msg3}

SpecBudget ==
    Init /\ [][\/ Welcome({MsgOi}, CalmScreening, {DetailedFails})
               \/ Consent({MsgAceito, MsgOi, <<"n", "a", "o">>,
                           \* a refusal that holds an acceptance word
                           <<"n", "a~", "o", " ", "a", "c", "e", "i", "t", "o">>},
                          CalmScreening,
                          {DetailedFails})
               \/ Phase1(BudgetMessages, CalmScreening, {DetailedFails},
                         {ParseFails, CouldNotInterpret,
                          Intent("skip_request", 90, FALSE),
                          Intent("question", 90, FALSE),
                          Intent("off_topic", 90, FALSE)},
                         {TRUE})]_vars

(***************************************************************************)
(* Unreadable replies on every optional question (an empty one on a text   *)
(* question) and unreadable replies or the answer "3" on the required      *)
(* ones; the service reads an unreadable reply as a skip request or cannot *)
(* interpret it, and messages are confirmed as an emergency on the way.    *)
(***************************************************************************)
SpecSkipCap ==
    Init /\ [][\/ Welcome({MsgOi}, CalmScreening, {DetailedFails})
               \/ Consent({MsgAceito}, CalmScreening, {DetailedFails})
               \/ Phase1(IF \A i \in 1..Len(Questionnaire) :
                                   Questionnaire[i].id = PendingId
                                       => Questionnaire[i].required
                            THEN {Msg3, MsgOi}
                            ELSE IF Questionnaire[session.current_question_index + 1].type
                                        = "text"
                                 THEN {MsgEmpty}
                            ELSE {MsgOi},
                         CalmScreening, {DetailedFails},
                         {CouldNotInterpret, Intent("skip_request", 90, FALSE)}, {TRUE})
               \/ Escalate({MsgOi}, RiskScreening,
                           {DetailedReply(TRUE, "suicide", 80, 2 * 3)},
                           {Generation(ReplyPlain), Generation(ReplyResume)})
               \/ CrisisTurn({MsgOi}, {Generation(ReplyPlain), Generation(ReplyResume)},
                             MaxCrisisTurns)]_vars

(***************************************************************************)
(* The whole questionnaire with a participant who answers "3" or asks      *)
(* about the question instead, which the service reads as a question.      *)
(***************************************************************************)
SpecClarify ==
    Init /\ [][\/ Welcome({MsgOi}, CalmScreening, {DetailedFails})
               \/ Consent({MsgAceito}, CalmScreening, {DetailedFails})
               \/ Phase1({Msg3, MsgAceito}, CalmScreening, {DetailedFails},
                         {Intent("question", 90, FALSE)}, {TRUE})
               \/ Followup({Msg3, MsgAceito}, CalmScreening, {DetailedFails},
                           {Intent("question", 90, FALSE)})
               \/ Origin({Msg3, MsgAceito}, CalmScreening, {DetailedFails},
                         {Intent("question", 90, FALSE)}, {TRUE})]_vars

(***************************************************************************)
(* A stored row in EMERGENCY whose snapshot columns are NULL, as           *)
(* load_state accepts it, with the episode's row beside it; the cursor and *)
(* the answers are what the row happens to hold.                           *)
(***************************************************************************)
InitStored ==
    /\ \E k \in 0..2 :
           session = [DefaultSession EXCEPT
                          !.state = "emergency",
                          !.current_question_index = k,
                          !.phase1_data =
                              [i \in 1..(k + 1) |->
                                  IF i <= k THEN Answered(Questionnaire[i], IntVal(3))
                                  ELSE Entry(Questionnaire[i])]]
    /\ crisis = Row([NewManager EXCEPT !.crisis_type = "suicide",
                                       !.safety_score = 2 * 3])
    /\ turn = NoTurn
    /\ call = NoCall
    /\ Quiet

SpecStored ==
    InitStored /\ [][\/ Restart(CrisisMessages)
                     \/ CrisisTurn(CrisisMessages, Generations, MaxCrisisTurns)
                     \/ Welcome(CrisisMessages, CalmScreening, {DetailedFails})
                     \/ Consent(CrisisMessages, CalmScreening, {DetailedFails})
                     \/ Phase1(BudgetMessages, CalmScreening, {DetailedFails},
                               {CouldNotInterpret}, {TRUE})]_vars

(***************************************************************************)
(* The deepening and origin phases with a participant who answers "3",     *)
(* sends a message the fast path cannot read, or sends an empty message    *)
(* (on the multiple-choice and text questions of the first phase, on the   *)
(* first deepening question and on every origin question); the service     *)
(* fails, cannot interpret, or reads a skip request or a question.  A      *)
(* message of either phase may open a crisis episode, which a later reply  *)
(* ends.                                                                   *)
(***************************************************************************)
DeepeningMessages ==
    IF session.state = "phase1_questions"
    THEN (IF PendingId \in {4, 9} THEN {Msg3, MsgEmpty} ELSE {Msg3})
    ELSE IF session.state = "followup_questions" /\ session.current_question_index > 0
         THEN {Msg3, MsgAceito}
    ELSE IF session.state \in {"followup_questions", "origin_questions"}
         THEN {Msg3, MsgAceito, MsgEmpty}
    ELSE {}

SpecDeepening ==
    Init /\ [][\/ Welcome({MsgOi}, CalmScreening, {DetailedFails})
               \/ Consent({MsgAceito}, CalmScreening, {DetailedFails})
               \/ Phase1(DeepeningMessages, CalmScreening, {DetailedFails},
                         {CouldNotInterpret}, {TRUE})
               \/ Followup(DeepeningMessages, CalmScreening, {DetailedFails},
                           {ParseFails, CouldNotInterpret,
                            Intent("skip_request", 90, FALSE),
                            Intent("question", 90, FALSE)})
               \/ Origin(DeepeningMessages, CalmScreening, {DetailedFails},
                         {ParseFails, CouldNotInterpret,
                          Intent("skip_request", 90, FALSE)}, {TRUE})
               \/ Escalate(DeepeningMessages \ {MsgEmpty, MsgAceito}, RiskScreening,
                           {DetailedReply(TRUE, "suicide", 80, 2 * 3)},
                           {Generation(ReplyPlain)})
               \/ CrisisTurn({MsgOi}, {Generation(ReplyResume)}, MaxCrisisTurns)]_vars

(***************************************************************************)
(* AudioTranscriber: an audio is measured, downloaded and transcribed; the *)
(* pass ends there when that fails.  Durations are in seconds.             *)
(***************************************************************************)
MAX_AUDIO_DURATION_MULTIPLE_CHOICE == 15

MAX_AUDIO_DURATION_TEXT == 120

MAX_AUDIO_DURATION_LIKERT == 15

\* validate_audio_duration: the limit of the question type, and whether the
\* duration is within it
validate_audio_duration(duration, question_type) ==
    LET max_duration == IF question_type = "multiple choice"
                        THEN MAX_AUDIO_DURATION_MULTIPLE_CHOICE
                        ELSE IF question_type = "likert" THEN MAX_AUDIO_DURATION_LIKERT
                        ELSE MAX_AUDIO_DURATION_TEXT
    IN  [valid |-> duration <= max_duration, max_duration |-> max_duration]

\* process_audio_message on an audio of the given estimated length whose
\* download raises or not and whose transcription fails, or succeeds with a
\* measured length (0 when the service reports none)
process_audio_message(audio, question_type) ==
    LET estimate == validate_audio_duration(audio.estimated, question_type)
        measured == validate_audio_duration(audio.duration, question_type)
    IN  IF ~estimate.valid /\ audio.estimated > estimate.max_duration * 2 THEN FALSE
        ELSE IF ~audio.downloaded \/ ~audio.transcribed THEN FALSE
        ELSE IF audio.duration # 0 /\ ~measured.valid THEN FALSE
        ELSE TRUE

\* an audio message that cannot be used: the pass logs the failure and
\* returns its message.  (An audio that is transcribed goes on as the text
\* of its transcription, through the other actions.)
AudioFailed(AU) ==
    \E audio \in AU :
        \* the type of the pending question, for the length limit
        /\ LET current_question_type ==
                   IF session.state = "phase1_questions"
                   THEN (IF session.current_question_index < Len(Questionnaire)
                         THEN Questionnaire[session.current_question_index + 1].type
                         ELSE "text")
                   ELSE IF session.state = "followup_questions" THEN "multiple choice"
                   ELSE IF session.state = "origin_questions"
                        THEN (IF session.current_question_index % 2 = 0
                              THEN "multiple choice" ELSE "text")
                   ELSE "text"
           IN  ~process_audio_message(audio, current_question_type)
        /\ session' = session
        /\ crisis' = Loaded
        /\ turn' = [Before("audio", MsgEmpty) EXCEPT !.kind = "audio_error",
                                                     !.failed = TRUE,
                                                     !.log = log_interaction(session)]
        /\ UNCHANGED <<call, stored, machines, saved>>

(***************************************************************************)
(* Audio messages that are too long, cannot be fetched or cannot be        *)
(* transcribed, at any point of a conversation that answers "3" and in     *)
(* which a message may open a crisis episode, with or without a type.      *)
(***************************************************************************)
SpecAudio ==
    Init /\ [][\/ AudioFailed({[estimated |-> e, downloaded |-> d, transcribed |-> t,
                                duration |-> n] :
                                   e \in {10, 40}, d \in BOOLEAN, t \in BOOLEAN,
                                   n \in {0, 10, 20}})
               \/ Welcome({MsgOi}, CalmScreening, {DetailedFails})
               \/ Consent({MsgAceito}, CalmScreening, {DetailedFails})
               \/ Phase1({Msg3}, CalmScreening, {DetailedFails}, {CouldNotInterpret}, {TRUE})
               \/ Escalate({Msg3}, RiskScreening,
                           {DetailedReply(TRUE, "None", 80, 2 * 3),
                            DetailedReply(TRUE, "suicide", 80, 2 * 3)},
                           {Generation(ReplyPlain)})
               \/ CrisisTurn({MsgOi}, {Generation(ReplyPlain), Generation(ReplyResume)},
                             MaxCrisisTurns)]_vars

(***************************************************************************)
(* Several participants and overlapping passes.  main.run builds one       *)
(* machine per message: the constructor loads the participant's rows, and  *)
(* process_message works on the machine's copy and writes it back with     *)
(* the participant's key, without a lock and without a version column.     *)
(* A pass is followed at this granularity: its load, then its processing   *)
(* with the writes that end it.                                            *)
(***************************************************************************)
\* the messages a participant sends, by the state its machine loaded
OverlapMessages(s) ==
    IF s.state = "welcome" THEN {MsgOi}
    ELSE IF s.state = "consent" THEN {MsgAceito}
    ELSE IF s.state = "phase1_questions" THEN {Msg3, Msg5, MsgOi, MsgRisk}
    ELSE IF s.state = "emergency" THEN {MsgOi}
    ELSE {}

\* QuestionnaireStateMachine(sender): load_state reads the two rows of the
\* participant, and in EMERGENCY load_crisis_state corrects an unset type
\* in the row itself
Load(p) ==
    /\ saved.n + Cardinality({j \in DOMAIN machines : machines[j].busy}) < MaxPasses
    /\ OverlapMessages(stored[p].session) # {}
    /\ \E k \in DOMAIN machines :
           /\ ~machines[k].busy
           /\ \A j \in 1..(k - 1) : machines[j].busy
           /\ machines' =
                  [j \in DOMAIN machines |->
                      IF j = k
                      THEN [busy |-> TRUE, sender |-> p, s |-> stored[p].session,
                            c |-> stored[p].crisis,
                            alone |-> \A i \in DOMAIN machines :
                                          machines[i].busy => machines[i].sender # p]
                      ELSE IF machines[j].busy /\ machines[j].sender = p
                           THEN [machines[j] EXCEPT !.alone = FALSE]
                      ELSE machines[j]]
    /\ stored' = [stored EXCEPT ![p].crisis =
                     IF stored[p].session.state = "emergency"
                     THEN load_crisis_state_row(@) ELSE @]
    /\ UNCHANGED <<session, crisis, turn, call, saved>>

\* process_message on a machine that loaded m.s and m.c, while the store
\* holds row for its participant: the rows of the participant afterwards.
\* A crisis turn that does not resume writes the episode only; every other
\* branch writes the whole session as the machine holds it.
Pass(m, row, message) ==
    IF m.s.state = "emergency"
    THEN LET conv == handle_crisis_conversation(row.crisis, load_manager(m.c),
                                                Generation(ReplyPlain))
         IN  {[s |-> row.session, c |-> conv.row, kind |-> "crisis"]}
    ELSE IF message = MsgRisk
    THEN LET gate == Gate(message, ScreeningReply(TRUE, "suicide", 90),
                          DetailedReply(TRUE, "suicide", 80, 2 * 3))
             manager == [NewManager EXCEPT
                             !.crisis_type = gate.detailed_result.type,
                             !.safety_score = gate.detailed_result.initial_safety_score]
             conv == handle_crisis_conversation(save_crisis_state(row.crisis, manager),
                                                manager, Generation(ReplyPlain))
         IN  {[s |-> enter_crisis_mode(m.s), c |-> conv.row, kind |-> "escalate"]}
    ELSE LET outs == IF m.s.state = "welcome"
                     THEN {Outcome([m.s EXCEPT !.state = "consent"], "welcome")}
                     ELSE IF m.s.state = "consent"
                     THEN {handle_consent(m.s, message)}
                     ELSE {handle_phase1_question(m.s, message, service, TRUE) :
                              service \in {Interpreted(NoneVal, 0),
                                           Intent("skip_request", 90, FALSE)}}
         IN  {[s |-> out.s, c |-> IF out.reset THEN end_crisis(row.crisis) ELSE row.crisis,
               kind |-> out.kind] : out \in outs}

\* a write that is not keyed by the participant
Process_unkeyed(k) ==
    /\ machines[k].busy
    /\ LET m == machines[k]
           row == stored[m.sender]
       IN  \E message \in OverlapMessages(m.s) :
               \E result \in Pass(m, row, message) :
                   /\ stored' = [p \in Senders |->
                                 [session |-> result.s, crisis |-> result.c]]
                   /\ machines' = [machines EXCEPT ![k] = NoMachine]
                   /\ saved' = [n |-> saved.n + 1, sender |-> m.sender, alone |-> m.alone,
                                kind |-> result.kind,
                                loaded |-> [session |-> m.s,
                                            crisis |-> IF m.s.state = "emergency"
                                                       THEN load_crisis_state_row(m.c)
                                                       ELSE m.c],
                                before |-> row,
                                after |-> [session |-> result.s, crisis |-> result.c]]
    /\ UNCHANGED <<session, crisis, turn, call>>

\* the pass of machine k runs to its end
Process(k) ==
    /\ machines[k].busy
    /\ LET m == machines[k]
           row == stored[m.sender]
       IN  \E message \in OverlapMessages(m.s) :
               \E result \in Pass(m, row, message) :
                   /\ stored' = [stored EXCEPT
                                     ![m.sender] = [session |-> result.s, crisis |-> result.c]]
                   /\ machines' = [machines EXCEPT ![k] = NoMachine]
                   /\ saved' = [n |-> saved.n + 1, sender |-> m.sender, alone |-> m.alone,
                                kind |-> result.kind,
                                loaded |-> [session |-> m.s,
                                            crisis |-> IF m.s.state = "emergency"
                                                       THEN load_crisis_state_row(m.c)
                                                       ELSE m.c],
                                before |-> row,
                                after |-> [session |-> result.s, crisis |-> result.c]]
    /\ UNCHANGED <<session, crisis, turn, call>>

SpecOverlap ==
    Init /\ [][\/ \E p \in Senders : Load(p)
               \/ \E k \in DOMAIN machines : Process(k)]_vars


(***************************************************************************)
(* Properties of the crisis overlay and of the safety gate.                *)
(***************************************************************************)
\* the pass that led to the current state opened a crisis episode
Escalated == turn.op = "escalate"

\* the pass that led to the current state was a crisis turn whose reply held
\* a resumption sentinel
Resumed == turn.op = "crisis" /\ turn.can_resume

\* C1: entering EMERGENCY from (s, i) and later resuming through a sentinel
\* restores exactly (s, i) and clears the snapshot.  Stated step by step: the
\* snapshot taken on entry is the state and cursor before the message, it is
\* kept for as long as the session stays in EMERGENCY, and the resuming turn
\* makes it the live state and cursor and clears it.
C1_SnapshotRoundTrip ==
    [][/\ Escalated' =>
             /\ session'.pre_crisis_state = session.state
             /\ session'.pre_crisis_question_index = IntVal(session.current_question_index)
       /\ (session.state = "emergency" /\ session'.state = "emergency") =>
             /\ session'.pre_crisis_state = session.pre_crisis_state
             /\ session'.pre_crisis_question_index = session.pre_crisis_question_index
       /\ (session.state = "emergency" /\ Resumed') =>
             /\ session'.state = session.pre_crisis_state
             /\ session'.current_question_index = session.pre_crisis_question_index.n
             /\ session'.pre_crisis_state = "None"
             /\ session'.pre_crisis_question_index = NoneVal]_vars

\* C2: in every persisted state the participant has an active crisis episode
\* if and only if the session state is EMERGENCY.
C2_ActiveIffEmergency == crisis.active <=> session.state = "emergency"

\* the gate's facts as the turn recorded them
Cleared(t) ==
    t.screened /\ t.screening.has_risk
               /\ t.screening.confidence >= SAFETY_CONFIDENCE_THRESHOLD

Confirmed(t) ==
    t.detailed /\ t.detailed_result.is_emergency
               /\ t.detailed_result.confidence > EMERGENCY_CONFIDENCE

\* the score of a fresh episode after its first turn
AfterFirstTurn(t, initial) ==
    IF t.failed THEN initial
    ELSE IF t.can_resume THEN 2 * 8
    ELSE IF initial + 1 < 2 * 6 THEN initial + 1 ELSE 2 * 6

\* C3: when the screening clears the threshold and the detailed check returns
\* an emergency with confidence above 0.6, the same pass leaves the session in
\* EMERGENCY with the snapshot of the state and cursor before the message and
\* nothing else of the questionnaire changed, and leaves a fresh episode of
\* the detected type, holding this message's turn only and the score the
\* first turn derives from the detailed check's initial score.
C3_EscalationOpensFreshEpisode ==
    [][(Cleared(turn') /\ Confirmed(turn')) =>
          /\ Escalated'
          /\ session' = [session EXCEPT
                             !.state = "emergency",
                             !.pre_crisis_state = session.state,
                             !.pre_crisis_question_index =
                                 IntVal(session.current_question_index)]
          /\ crisis'.active
          /\ crisis'.crisis_type = turn'.detailed_result.type
          /\ crisis'.interaction_count = (IF turn'.failed THEN 0 ELSE 1)
          /\ crisis'.crisis_history =
                 (IF turn'.failed THEN <<>> ELSE <<"user", "assistant">>)
          /\ crisis'.safety_score =
                 AfterFirstTurn(turn', turn'.detailed_result.initial_safety_score)]_vars

\* an episode opened mid-questionnaire by a message that is a valid answer,
\* over the row a resumed episode left behind
C3_Witness ==
    /\ Escalated
    /\ turn.message = Msg3
    /\ turn.state_before = "phase1_questions" /\ turn.index_before = 7
    /\ session.state = "emergency"
    /\ crisis.interaction_count = 1

\* C4: when the detailed check fails for a message whose screening cleared
\* the threshold, the pass opens a crisis episode and leaves the session in
\* EMERGENCY.
C4_FailSafeEscalation ==
    (Cleared(turn) /\ turn.detailed_result.detailed_check_model = "error") =>
        /\ Escalated /\ turn.opened
        /\ session.state = "emergency"
        /\ crisis.active

C4_Witness ==
    /\ Cleared(turn) /\ turn.detailed_result.detailed_check_model = "error"
    /\ turn.state_before = "followup_questions"
    /\ session.state = "emergency"

\* the passes that reach the safety gate: not a restart, not in EMERGENCY
Gated(t) == t.op # "none" /\ ~IsRestart(t.message) /\ t.state_before # "emergency"

\* C5 as stated: the detailed check runs if and only if the screening
\* reported confidence >= 0.4.
C5_DetailedIffConfidence ==
    Gated(turn) =>
        /\ turn.screened
        /\ turn.detailed <=> turn.screening.confidence >= SAFETY_CONFIDENCE_THRESHOLD
        /\ ~turn.detailed => ~turn.opened

\* C5 amended: every message handled outside EMERGENCY that is not a restart
\* is screened, and the detailed check runs if and only if the screening
\* reported risk with confidence >= 0.4; otherwise no episode opens.
C5_DetailedIffRiskAndConfidence ==
    Gated(turn) =>
        /\ turn.screened
        /\ turn.detailed <=>
               (/\ turn.screening.has_risk
                /\ turn.screening.confidence >= SAFETY_CONFIDENCE_THRESHOLD)
        /\ ~turn.detailed => (~turn.opened /\ session.state # "emergency")

\* risk reported exactly at the threshold: the detailed check ran
C5_Witness ==
    /\ Gated(turn) /\ turn.detailed
    /\ turn.screening.confidence = SAFETY_CONFIDENCE_THRESHOLD
    /\ turn.screening.screening_model = "llm"

\* a keyword of some category occurs in the message, accents and case aside
HasKeyword(message, i) ==
    \E k \in 1..Len(EMERGENCY_KEYWORDS[i].keywords) :
        Contains(normalize_text(message), normalize_text(EMERGENCY_KEYWORDS[i].keywords[k]))

\* C6: when the screening call fails the keyword check decides alone: with
\* no keyword in the message risk is absent, no detailed check runs, no
\* episode opens and the questionnaire handles the message; with a keyword
\* the screening reports risk of a category whose keyword occurs, with a
\* confidence that clears the threshold, and the detailed check runs.
C6_KeywordFallback ==
    (turn.screened /\ turn.screening.screening_model = "quick_check") =>
        IF \E i \in 1..Len(EMERGENCY_KEYWORDS) : HasKeyword(turn.message, i)
        THEN /\ turn.screening.has_risk
             /\ \E i \in 1..Len(EMERGENCY_KEYWORDS) :
                    /\ HasKeyword(turn.message, i)
                    /\ turn.screening.type = EMERGENCY_KEYWORDS[i].type
             /\ turn.screening.confidence >= SAFETY_CONFIDENCE_THRESHOLD
             /\ turn.detailed
        ELSE /\ ~turn.screening.has_risk
             /\ ~turn.detailed /\ ~turn.opened
             /\ turn.op = "questionnaire"

\* the classifier failed on a message holding a keyword, and the detailed
\* check that followed dismissed it
C6_Witness ==
    /\ turn.screened /\ turn.screening.screening_model = "quick_check"
    /\ turn.message = MsgRisk
    /\ turn.screening.type = "suicide"
    /\ turn.detailed /\ turn.op = "questionnaire"

\* C7: a message holding a restart keyword, in any session state, ends with
\* the session in its initial form and no active crisis episode, and neither
\* crisis routing nor safety screening handled it.
C7_RestartTearsDown ==
    turn.message = MsgReiniciar =>
        /\ turn.op = "restart"
        /\ ~turn.screened /\ ~turn.detailed /\ ~turn.opened
        /\ session.state = "welcome" /\ session.current_question_index = 0
        /\ session.phase1_data = <<>>
        /\ session.followup_data.aprofundamento = <<>>
        /\ DOMAIN session.followup_data.origem_riscos = {}
        /\ session.trigger_dimensions = <<>>
        /\ DOMAIN session.attempt_counts = {}
        /\ session.skipped_questions = 0
        /\ session.pre_crisis_state = "None"
        /\ session.pre_crisis_question_index = NoneVal
        /\ ~crisis.active

\* a restart received in the middle of a crisis episode
C7_Witness ==
    /\ turn.message = MsgReiniciar /\ turn.op = "restart"
    /\ turn.state_before = "emergency"
    /\ session = DefaultSession

(***************************************************************************)
(* Properties of the skip budget and of the assessment.                    *)
(***************************************************************************)
\* the question the cursor of a first-phase session points at
CurrentQuestion(s) == QuestionOf(s.phase1_data[s.current_question_index + 1])

\* the step is a first-phase pass whose message was read as a skip request
SkipStep ==
    /\ session.state = "phase1_questions"
    /\ session.current_question_index < Len(session.phase1_data)
    /\ turn'.op = "questionnaire"
    /\ turn'.parsed = "skip"

\* C8: in the first phase, a message read as a skip request on a question
\* whose id is 4, 5 or 7 never advances the cursor, never marks the question
\* disregarded and never counts as a skip: the session stays on the question.
C8_RequiredNeverSkipped ==
    [][(SkipStep /\ CurrentQuestion(session).id \in {4, 5, 7}) =>
          /\ session'.state = "phase1_questions"
          /\ session'.current_question_index = session.current_question_index
          /\ session'.phase1_data = session.phase1_data
          /\ session'.skipped_questions = session.skipped_questions
          /\ turn'.kind = "skip_refused"]_vars

\* a skip refused on question 7 after earlier questions were skipped
C8_Witness ==
    /\ turn.parsed = "skip" /\ turn.kind = "skip_refused"
    /\ session.state = "phase1_questions"
    /\ session.current_question_index = 6
    /\ session.skipped_questions >= 2

\* C9: once five questions were skipped, a further skip request on an
\* optional question tears the session down: it is back in its initial form,
\* no crisis episode is active, and nothing of the abandoned run is archived.
C9_SkipBudgetTeardown ==
    [][(/\ SkipStep
        /\ ~CurrentQuestion(session).required
        /\ session.skipped_questions >= 5) =>
          /\ session' = DefaultSession
          /\ ~crisis'.active
          /\ turn'.reset
          /\ turn'.archive = NoArchive]_vars

\* the sixth skip request arrives with a question still to come
C9_Witness ==
    /\ turn.parsed = "skip" /\ turn.kind = "skip_limit_reset"
    /\ turn.index_before = 8
    /\ session = DefaultSession

\* the positions of the answers that count for a dimension
CountedFor(data, dim) ==
    {i \in 1..Len(data) :
        /\ QuestionOf(data[i]).type = "likert"
        /\ QuestionOf(data[i]).dimension = dim
        /\ data[i].desconsiderada # "True"
        /\ data[i].response.k = "int"}

RECURSIVE Total(_, _)
Total(data, positions) ==
    IF positions = {} THEN 0
    ELSE LET i == CHOOSE j \in positions : TRUE
         IN  data[i].response.n + Total(data, positions \ {i})

\* mean <= 3.0 over at least one counted answer
MeanAtMostThree(data, dim) ==
    /\ CountedFor(data, dim) # {}
    /\ Total(data, CountedFor(data, dim)) <= 3 * Cardinality(CountedFor(data, dim))

Dimensions == {Questionnaire[i].dimension : i \in LikertPositions}

\* one of the five dimensions the assessment looks at, case and accents aside
Targeted(dim) ==
    \E i \in 1..Len(target_dimensions) : normalize(target_dimensions[i]) = normalize(dim)

\* seq lists exactly the members of dims, each once, in the order of their
\* first counted answer
ListsInFirstSeenOrder(seq, dims, data) ==
    LET First(dim) == CHOOSE i \in CountedFor(data, dim) :
                          \A j \in CountedFor(data, dim) : i <= j
    IN  /\ {seq[i] : i \in 1..Len(seq)} = dims
        /\ Len(seq) = Cardinality(dims)
        /\ \A a, b \in 1..Len(seq) : a < b => First(seq[a]) < First(seq[b])

\* the assessment's selection as the session shows it: with no dimension
\* selected the questionnaire completes, otherwise the follow-up phase opens
\* with the selection
Selects(dims) ==
    IF dims = {} THEN turn'.kind = "completion"
    ELSE /\ turn'.kind = "followup_intro"
         /\ session'.state = "followup_questions"
         /\ ListsInFirstSeenOrder(session'.trigger_dimensions, dims, session.phase1_data)

C11_ScoreBoundedMonotone ==
    [][/\ crisis'.active => crisis'.safety_score \in 0..(2 * 10)
       /\ Escalated' =>
              crisis'.safety_score >= turn'.detailed_result.initial_safety_score
       /\ (session.state = "emergency" /\ turn'.op = "crisis") =>
              crisis'.safety_score >= crisis.safety_score]_vars

\* C12: an open crisis episode never has its type unset.
C12_CrisisTypeSet == crisis.active => crisis.crisis_type \notin {"None", ""}

\* the reply holds an accepted sentinel variant
HasSignal(reply) == \E i \in 1..Len(resume_signals) : Contains(reply, resume_signals[i])

\* the pass ran a crisis turn whose generated reply held a sentinel
SentinelTurn == turn.op \in {"crisis", "escalate"} /\ HasSignal(turn.generated)

\* C13: when the generated reply holds an accepted sentinel variant, the
\* visible reply holds no sentinel text and is not empty, and resumption is
\* reported.
C13_SentinelStripped ==
    SentinelTurn =>
        /\ turn.can_resume
        /\ ~HasSignal(turn.response)
        /\ turn.response # <<>>

\* the questionnaire's data, which a crisis turn leaves alone
QuestionnaireData(s) ==
    <<s.phase1_data, s.followup_data, s.trigger_dimensions, s.attempt_counts,
      s.skipped_questions>>

\* in EMERGENCY a message that is not a restart goes to the crisis overlay
\* alone and the questionnaire's data is left as it was
CrisisFrame ==
    (session.state = "emergency" /\ ~IsRestart(turn'.message)) =>
        /\ turn'.op = "crisis"
        /\ ~turn'.screened /\ ~turn'.detailed
        /\ ~turn'.llm_used /\ turn'.parsed = "none" /\ turn'.kind = "none"
        /\ QuestionnaireData(session') = QuestionnaireData(session)
        /\ ~turn'.can_resume => session' = session

\* a resuming turn makes the snapshot the live state and cursor
ResumesFromSnapshot ==
    (session.state = "emergency" /\ Resumed') =>
        /\ session'.state = session.pre_crisis_state
        /\ session'.current_question_index = session.pre_crisis_question_index.n

\* C14: while the session is in EMERGENCY a message that is not a restart
\* is handled by the crisis overlay alone (no screening, no parsing, no
\* questionnaire handler), the questionnaire's data is unchanged, and a
\* resuming turn changes only state and cursor, to the snapshot's.
C14_CrisisRoutingFrame == [][CrisisFrame /\ ResumesFromSnapshot]_vars

\* C20: the session leaves EMERGENCY only on a restart command or on a
\* crisis turn whose generated reply holds a sentinel; a crisis turn whose
\* reply holds none leaves the session as it was and the episode active,
\* and from the tenth interaction on it appends the note.
C20_NoForcedResumption ==
    [][/\ (session.state = "emergency" /\ session'.state # "emergency") =>
              \/ turn'.op = "restart"
              \/ turn'.op = "crisis" /\ HasSignal(turn'.generated)
       /\ (session.state = "emergency" /\ turn'.op = "crisis"
              /\ ~HasSignal(turn'.generated)) =>
              /\ session' = session
              /\ crisis'.active
              /\ ~turn'.failed =>
                     (turn'.note <=> crisis'.interaction_count >= 10)]_vars

\* the tenth interaction of an episode, without resumption
C20_Witness ==
    /\ turn.op = "crisis" /\ turn.note
    /\ ~HasSignal(turn.generated)
    /\ crisis.interaction_count = 10
    /\ session.state = "emergency" /\ crisis.active

(***************************************************************************)
(* Properties of the fast path and of an accepted answer.                  *)
(***************************************************************************)
\* a token the fast path reads for this question: an ordinal or a numeric
\* emoji of one of its options, or a Likert literal
FastToken(message, q) ==
    \/ /\ q.type = "multiple choice"
       /\ \E k \in 1..Len(q.options) :
              message = Ordinal(k) \/ (k <= 9 /\ message = NumberEmoji(k))
    \/ /\ q.type = "likert"
       /\ \E v \in 1..5 : message = Ordinal(v)

\* C15: for every option list and every k within it, the plain ordinal k
\* and the numeric emoji of k parse to the k-th option, a Likert literal 1-5
\* parses to that value, and a first-phase message that is such a token for
\* the question at hand is read without the interpretation fallback.
C15_FastPathDeterminism ==
    /\ call.fn = "parse_multiple_choice" =>
           \A k \in 1..Len(call.options) :
               (call.message = Ordinal(k) \/ (k <= 9 /\ call.message = NumberEmoji(k))) =>
                   call.result = [success |-> TRUE, value |-> TextVal(call.options[k])]
    /\ call.fn = "parse_likert" =>
           \A v \in 1..5 :
               call.message = Ordinal(v) =>
                   call.result = [success |-> TRUE, value |-> IntVal(v)]
    /\ (/\ turn.op = "questionnaire" /\ turn.state_before = "phase1_questions"
        /\ FastToken(turn.message, Questionnaire[turn.index_before + 1])) =>
           ~turn.llm_used /\ turn.parsed = "fast"

\* the numeric emoji of 2 against a list of three options
C15_Witness ==
    /\ call.fn = "parse_multiple_choice"
    /\ call.message = NumberEmoji(2)
    /\ Len(call.options) = 3
    /\ call.result.success /\ call.result.value = TextVal(call.options[2])

\* the step is a first-phase pass on a message the fast path accepts
FastAnswerStep ==
    /\ session.state = "phase1_questions"
    /\ session.current_question_index < Len(session.phase1_data)
    /\ turn'.op = "questionnaire"
    /\ fast_parse(turn'.message, CurrentQuestion(session)).success

\* what an accepted answer leaves: the value recorded on the question, its
\* counters at zero, the cursor one further and the next question in the
\* buffer; after the last question the first phase is over
AnswerRecorded ==
    LET i == session.current_question_index
        q == CurrentQuestion(session)
        value == fast_parse(turn'.message, q).value
    IN  /\ ~turn'.llm_used
        /\ IF i + 1 < Len(Questionnaire)
           THEN /\ session'.state = "phase1_questions"
                /\ session'.current_question_index = i + 1
                /\ session'.phase1_data =
                       Append([session.phase1_data EXCEPT
                                   ![i + 1].response = value,
                                   ![i + 1].desconsiderada = "False"],
                              Entry(Questionnaire[i + 2]))
                /\ session'.attempt_counts[<<"q", q.id>>] = 0
                /\ session'.attempt_counts[<<"q_clarifications", q.id>>] = 0
                /\ \A key \in DOMAIN session.attempt_counts :
                       key[2] # q.id =>
                           session'.attempt_counts[key] = session.attempt_counts[key]
                /\ session'.skipped_questions = session.skipped_questions
           ELSE /\ session'.state # "phase1_questions"
                /\ turn'.archive.phase = "phase1"
                /\ turn'.archive.phase1 =
                       [session.phase1_data EXCEPT
                            ![i + 1].response = value,
                            ![i + 1].desconsiderada = "False"]

\* C16: from WELCOME a first message leads to CONSENT, the consent "sim"
\* leads to the first phase at cursor 0 with the first question in the
\* buffer, and a first-phase reply the fast path accepts is recorded as the
\* question's response, resets its counters, advances the cursor and
\* appends the next question; the result is what is saved.
C16_AnswerAccepted ==
    [][/\ (session.state = "welcome" /\ turn'.op = "questionnaire") =>
              session' = [session EXCEPT !.state = "consent"]
       /\ (session.state = "consent" /\ turn'.op = "questionnaire"
              /\ turn'.message = MsgSim) =>
              /\ session'.state = "phase1_questions"
              /\ session'.current_question_index = 0
              /\ session'.phase1_data = <<Entry(Questionnaire[1])>>
       /\ FastAnswerStep => AnswerRecorded]_vars

\* the Likert reply "3" at cursor 0 after an attempt that failed
C16_Witness ==
    /\ turn.op = "questionnaire" /\ turn.state_before = "phase1_questions"
    /\ turn.index_before = 0 /\ turn.message = Msg3
    /\ session.current_question_index = 1
    /\ session.phase1_data[1].response = IntVal(3)
    /\ Len(session.phase1_data) = 2

(***************************************************************************)
(* Properties of the session between messages.                             *)
(***************************************************************************)
\* the pass reached the completion of the questionnaire
Completed == turn.op = "questionnaire" /\ turn.kind = "completion"

\* C17: the session is never left in COMPLETION; a pass that reaches the
\* completion, from the assessment or from the end of the origin
\* questions, destroys the session, so that the next message starts from
\* WELCOME with no answers and no counters.
C17_CompletionTransient ==
    /\ session.state # "completion"
    /\ Completed => /\ turn.reset
                    /\ session = DefaultSession
                    /\ ~crisis.active

\* the questionnaire completed from the end of the origin questions
C17_Witness ==
    /\ Completed /\ turn.state_before = "origin_questions"
    /\ turn.archive.phase = "followups"
    /\ session.state = "welcome" /\ session.phase1_data = <<>>

\* the cursor is within the collection the state implies
CursorInBounds(s) ==
    /\ s.state = "phase1_questions" => s.current_question_index < Len(Questionnaire)
    /\ s.state = "followup_questions" =>
           s.current_question_index < Len(FOLLOWUP_QUESTIONS)
    /\ s.state = "origin_questions" =>
           s.current_question_index < 2 * Len(s.trigger_dimensions)

\* C18: after every processed message the cursor is below the number of
\* phase-1 questions in PHASE1_QUESTIONS, below 6 in FOLLOWUP_QUESTIONS and
\* below twice the number of trigger dimensions in ORIGIN_QUESTIONS.
C18_CursorInBounds == CursorInBounds(session) /\ session.current_question_index >= 0

\* the pre-crisis snapshot holds a state and a cursor
SnapshotSet(s) == s.pre_crisis_state # "None" /\ s.pre_crisis_question_index # NoneVal

\* no part of the pre-crisis snapshot is set
SnapshotNull(s) == s.pre_crisis_state = "None" /\ s.pre_crisis_question_index = NoneVal

\* a state past the first message of the conversation
MidQuestionnaire(state) == state # "welcome"

ResumptionReported == turn.op \in {"crisis", "escalate"} /\ turn.can_resume

\* C21: whenever the crisis dialogue reports resumption, the session has
\* left EMERGENCY and holds no snapshot at the end of that same pass, also
\* when the reply to the message that opened the episode holds the sentinel.
C21_ResumptionLeavesEmergency ==
    ResumptionReported => session.state # "emergency" /\ SnapshotNull(session)

\* C23: the skip count of the saved session is between 0 and the cap, no
\* pass lowers it except one that resets the session, and a pass that
\* opens a crisis episode or runs a crisis turn, resuming or not, leaves it
\* as it was.
C23_SkipCountBoundedMonotone ==
    [][/\ session'.skipped_questions \in 0..MAX_SKIPS
       /\ ~turn'.reset => session'.skipped_questions >= session.skipped_questions
       /\ turn'.op \in {"escalate", "crisis"} =>
              session'.skipped_questions = session.skipped_questions]_vars

\* a resumption into the first phase with the skip budget used up
C23_Witness ==
    /\ Resumed
    /\ session.state = "phase1_questions"
    /\ session.skipped_questions = MAX_SKIPS

\* the pass reset the session because of the skip cap
SkipCapReset == turn.kind \in {"skip_limit_reset", "auto_skip_reset"}

\* C24: the skip cap is the same for requested skips and for auto-skips:
\* the forced reset comes to a run that has disregarded five questions
\* already, whichever way each of them was disregarded.
C24_SkipCapUniform ==
    [][SkipCapReset' => session.skipped_questions = MAX_SKIPS]_vars

\* the step is a first-phase pass whose message could not be interpreted
CouldNotStep ==
    /\ session.state = "phase1_questions"
    /\ session.current_question_index < Len(session.phase1_data)
    /\ turn'.op = "questionnaire"
    /\ turn'.parsed = "could_not_interpret"

\* the attempts on the pending question, this pass included
RawAttempts == DictGet(session.attempt_counts, QKey(CurrentQuestion(session)), 0) + 1

\* the session with this pass counted on the pending question, nothing else
Counted1 ==
    [session EXCEPT !.attempt_counts =
                        DictSet(@, QKey(CurrentQuestion(session)), RawAttempts)]

\* the question is asked again: only the attempt is counted
AskedAgain == session' = Counted1 /\ ~turn'.reset

\* the pending question is disregarded and the cursor moves on
AutoSkipped ==
    LET i == session.current_question_index
    IN  /\ ~turn'.reset
        /\ session'.skipped_questions = session.skipped_questions + 1
        /\ session'.phase1_data[i + 1].response = NoneVal
        /\ session'.phase1_data[i + 1].desconsiderada = "True"
        /\ \/ session'.state = "phase1_questions" /\ session'.current_question_index = i + 1
           \/ session'.state # "phase1_questions"

\* the session is torn down
TornDown == session' = DefaultSession /\ turn'.reset /\ ~crisis'.active

\* C25: on a could-not-interpret outcome in the first phase, a required
\* question is asked again without advancing until its attempts reach 5,
\* when the session is reset; an optional question is asked again until its
\* attempts reach 3, when it is disregarded with a null response, the skip
\* count grows by one and the cursor advances, or the session is reset
\* because the skip cap is hit.
C25_CouldNotInterpretPolicy ==
    [][CouldNotStep =>
          IF CurrentQuestion(session).required
          THEN IF RawAttempts >= MAX_ATTEMPTS_REQUIRED THEN TornDown ELSE AskedAgain
          ELSE IF RawAttempts >= MAX_ATTEMPTS_OPTIONAL
               THEN AutoSkipped \/ (TornDown /\ session.skipped_questions + 1 >= MAX_SKIPS)
               ELSE AskedAgain]_vars

\* the fifth uninterpretable reply to a required question
C25_Witness ==
    /\ turn.parsed = "could_not_interpret" /\ turn.kind = "attempts_reset"
    /\ turn.index_before = 3
    /\ session = DefaultSession

\* the step is a first-phase pass that ended in a clarification, an
\* off-topic redirect or a refused skip request
RedirectStep ==
    /\ session.state = "phase1_questions"
    /\ session.current_question_index < Len(session.phase1_data)
    /\ turn'.op = "questionnaire"
    /\ \/ turn'.parsed \in {"clarification", "off_topic"}
       \/ turn'.kind = "skip_refused"

\* C26: a first-phase pass that ends in a clarification, an off-topic
\* redirect or a refused skip request leaves the raw attempts of the
\* pending question as they were, so that it brings neither the forced
\* reset nor the auto-skip closer.
C26_RedirectsCostNoAttempt ==
    [][RedirectStep =>
          DictGet(session'.attempt_counts, QKey(CurrentQuestion(session)), 0)
              = DictGet(session.attempt_counts, QKey(CurrentQuestion(session)), 0)]_vars

\* the step is a first-phase pass in which the interpretation service failed
ServiceErrorStep ==
    /\ session.state = "phase1_questions"
    /\ session.current_question_index < Len(session.phase1_data)
    /\ turn'.op = "questionnaire"
    /\ turn'.parsed = "error"

\* C27: a failure of the interpretation service in a first-phase pass is
\* handled as a could-not-interpret outcome: the question is asked again
\* until its attempts reach 5 (required), when the session is reset, or 3
\* (optional), when the question is auto-skipped.
C27_ServiceErrorCounts ==
    [][ServiceErrorStep =>
          IF CurrentQuestion(session).required
          THEN IF RawAttempts >= MAX_ATTEMPTS_REQUIRED THEN TornDown ELSE AskedAgain
          ELSE IF RawAttempts >= MAX_ATTEMPTS_OPTIONAL
               THEN AutoSkipped \/ (TornDown /\ session.skipped_questions + 1 >= MAX_SKIPS)
               ELSE AskedAgain]_vars

\* the step is a pass on a pending question that the interpretation read
\* as a clarifying request
ClarifyStep ==
    /\ session.state \in {"phase1_questions", "followup_questions", "origin_questions"}
    /\ turn'.op = "questionnaire"
    /\ turn'.parsed = "clarification"

\* C28: in the first phase, the follow-up questions and the origin
\* questions, no more than two explanations are relayed in a row on a
\* pending question, a further clarifying request is answered by insisting
\* on an answer, and a clarification never moves the cursor.
C28_ClarificationBudget ==
    [][/\ turn'.explained <= CLARIFICATION_LIMIT
       /\ ClarifyStep =>
              /\ session'.state = session.state
              /\ session'.current_question_index = session.current_question_index
              /\ turn'.kind \in {"clarified", "insisted"}
              /\ turn'.kind = "insisted" <=> turn.explained >= CLARIFICATION_LIMIT]_vars

\* the step is a pass of the questionnaire on a session in CONSENT
ConsentStep == session.state = "consent" /\ turn'.op = "questionnaire"

\* the normalised message holds a word of the list
Matches(words, message) == AnyWordIn(words, normalize(message))

\* C29: in CONSENT a message that matches an affirmative keyword moves the
\* session to the first phase at cursor 0 with the first question in the
\* buffer, a message that matches a negative keyword tears the session
\* down, and any other message leaves the session as it was.
C29_ConsentTransitions ==
    [][ConsentStep =>
          /\ Matches(ConsentYesWords, turn'.message) =>
                 /\ session'.state = "phase1_questions"
                 /\ session'.current_question_index = 0
                 /\ session'.phase1_data = <<Entry(Questionnaire[1])>>
          /\ Matches(ConsentNoWords, turn'.message) => TornDown
          /\ (/\ ~Matches(ConsentYesWords, turn'.message)
              /\ ~Matches(ConsentNoWords, turn'.message)) => session' = session]_vars

\* the pass ran the assessment and saved its result
AssessmentWrote ==
    /\ turn'.op = "questionnaire" /\ turn'.archive.phase = "phase1"
    /\ session.state \in {"phase1_questions", "assessment"}
    /\ session.trigger_dimensions = <<>>
    /\ session'.trigger_dimensions = compute_trigger_dimensions(turn'.archive.phase1)

\* C30: trigger_dimensions changes only when the assessment step writes
\* it, from the phase-1 answers and while it is still empty, or when the
\* session is reset; no follow-up, origin or crisis turn changes it; and the
\* session is in FOLLOWUP_QUESTIONS or ORIGIN_QUESTIONS only with a
\* non-empty trigger_dimensions.
C30_TriggerDimensionsFrame ==
    [][/\ session'.trigger_dimensions # session.trigger_dimensions =>
              \/ AssessmentWrote
              \/ turn'.reset /\ session'.trigger_dimensions = <<>>
       /\ session'.state \in {"followup_questions", "origin_questions"} =>
              session'.trigger_dimensions # <<>>]_vars

\* a crisis that interrupted the origin questions has just been resumed
C30_Witness ==
    /\ Resumed
    /\ session.state = "origin_questions"
    /\ session.trigger_dimensions # <<>>

\* the step resumes an episode of a session that holds no snapshot
ResumedWithoutSnapshot ==
    /\ session.state = "emergency" /\ SnapshotNull(session)
    /\ Resumed'

\* C22: a crisis episode resumed when the session holds no pre-crisis
\* snapshot leaves the session at WELCOME with cursor 0.
C22_ResumeWithoutSnapshot ==
    [][ResumedWithoutSnapshot =>
          /\ session'.state = "welcome"
          /\ session'.current_question_index = 0
          /\ SnapshotNull(session')]_vars

\* an episode resumed from a row that held answers and a cursor, but no
\* snapshot
C22_Witness ==
    /\ Resumed /\ turn.state_before = "emergency" /\ turn.index_before = 2
    /\ session.state = "welcome" /\ session.current_question_index = 0
    /\ Len(session.phase1_data) = 3


(***************************************************************************)
(* The deepening phase.                                                    *)
(***************************************************************************)
\* a pass of handle_followup_questions
FollowupStep == session.state = "followup_questions" /\ turn'.op = "questionnaire"

Deepening(s) == s.followup_data.aprofundamento

\* the reply acknowledges the answer: "Registrado", or the origin phase opens
AnswerTaken == turn'.kind \in {"recorded", "origin_intro"}

\* C31: in FOLLOWUP_QUESTIONS an accepted answer appends exactly one entry,
\* for the question asked, to the deepening answers and advances the cursor
\* by one; a reply that is not accepted (a skip request, an interpretation
\* failure, a question, a service error) changes neither; the sixth answer
\* moves the session to ORIGIN_QUESTIONS with cursor 0, the list then holding
\* the six questions in order.
C31_FollowupAppendsInOrder ==
    [][FollowupStep =>
        LET pos == session.current_question_index + 1
            before == Deepening(session)
            after == Deepening(session')
        IN  /\ turn'.parsed \in {"skip", "could_not_interpret", "clarification",
                                 "off_topic", "error", "none"} => ~AnswerTaken
            /\ turn'.parsed = "fast" => AnswerTaken
            /\ IF AnswerTaken
               THEN /\ Len(after) = Len(before) + 1
                    /\ SubSeq(after, 1, Len(before)) = before
                    /\ after[Len(after)].id = FOLLOWUP_QUESTIONS[pos].id
                    /\ IF pos = 6
                       THEN /\ session'.state = "origin_questions"
                            /\ session'.current_question_index = 0
                            /\ [i \in 1..6 |-> after[i].id]
                                   = <<"A1", "A2", "A3", "A4", "A5", "A6">>
                       ELSE /\ session'.state = "followup_questions"
                            /\ session'.current_question_index = pos
               ELSE /\ after = before
                    /\ session'.state = session.state
                    /\ session'.current_question_index = session.current_question_index]_vars

\* the sixth answer was just taken and the origin phase opened
C31_Witness ==
    /\ turn.op = "questionnaire" /\ turn.kind = "origin_intro"
    /\ session.state = "origin_questions"
    /\ Len(Deepening(session)) = 6
    /\ Deepening(session)[1].response = TextVal(FollowupOptions[3])

(***************************************************************************)
(* The origin phase.                                                       *)
(***************************************************************************)
\* a pass of handle_origin_questions
OriginStep == session.state = "origin_questions" /\ turn'.op = "questionnaire"

\* the origin answers after the pass: those archived when the phase ended
\* (the row is torn down in the same pass), those of the row otherwise
OriginsAfter ==
    IF turn'.kind = "completion" THEN turn'.archive.followups.origem_riscos
    ELSE session'.followup_data.origem_riscos

\* two entries, the closed-form answer first and the free text second
IsPair(entries) ==
    /\ Len(entries) = 2
    /\ entries[1].id = "O1"
    /\ entries[2].id = "O2"
    /\ entries[2].response.k = "text"

\* C32: in ORIGIN_QUESTIONS an answer is filed under trigger dimension
\* question_index // 2 as sub-question question_index % 2 and nothing else
\* changes in the origin answers; when the phase ends, the archived origin
\* answers hold for every trigger dimension exactly the closed-form answer
\* followed by the free-text one; a reply that is not taken as an answer
\* and a crisis turn change no deepening or origin answer.
C32_OriginPairsPerDimension ==
    [][/\ turn'.op \in {"crisis", "escalate"} => session'.followup_data = session.followup_data
       /\ OriginStep =>
            LET index == session.current_question_index
                dims == session.trigger_dimensions
                before == session.followup_data.origem_riscos
            IN  /\ turn'.kind \in {"recorded", "completion", "error"} /\ index \div 2 < Len(dims) =>
                       LET dim == dims[(index \div 2) + 1]
                           old == DictGet(before, dim, <<>>)
                       IN  /\ DOMAIN OriginsAfter = DOMAIN before \cup {dim}
                           /\ \A d \in DOMAIN before \ {dim} : OriginsAfter[d] = before[d]
                           /\ Len(OriginsAfter[dim]) = Len(old) + 1
                           /\ SubSeq(OriginsAfter[dim], 1, Len(old)) = old
                           /\ OriginsAfter[dim][Len(old) + 1].id
                                  = ORIGIN_QUESTIONS[(index % 2) + 1].id
                /\ turn'.kind \in {"clarified", "reprompt"} =>
                       /\ session'.followup_data = session.followup_data
                       /\ session'.current_question_index = index
                /\ turn'.kind = "completion" =>
                       /\ turn'.archive.phase = "followups"
                       /\ DOMAIN OriginsAfter = {dims[i] : i \in 1..Len(dims)}
                       /\ \A d \in DOMAIN OriginsAfter : IsPair(OriginsAfter[d])]_vars

\* the phase ended with two trigger dimensions answered
C32_Witness ==
    /\ turn.op = "questionnaire" /\ turn.kind = "completion"
    /\ turn.state_before = "origin_questions"
    /\ Cardinality(DOMAIN turn.archive.followups.origem_riscos) = 2

(***************************************************************************)
(* Free-text answers.                                                      *)
(***************************************************************************)
\* a recorded text: not empty, no blank at either end, within the limit
WellFormedText(value) ==
    /\ value.k = "text"
    /\ value.t # <<>>
    /\ Strip(value.t) = value.t
    /\ Len(value.t) <= MaxTextLen

\* C33: every free-text answer on record, of a text question of the first
\* phase or of the free-text origin question of a dimension, is a trimmed,
\* non-empty string of at most 500 characters (so an empty message is never
\* recorded as one).
C33_TextAnswersWellFormed ==
    /\ \A i \in 1..Len(session.phase1_data) :
           LET item == session.phase1_data[i]
           IN  QuestionOf(item).type = "text" /\ item.response \notin {AbsentVal, NoneVal}
                   => WellFormedText(item.response)
    /\ \A dim \in DOMAIN session.followup_data.origem_riscos :
           \A i \in 1..Len(session.followup_data.origem_riscos[dim]) :
               LET entry == session.followup_data.origem_riscos[dim][i]
               IN  entry.id = "O2" => WellFormedText(entry.response)

(***************************************************************************)
(* The fast path on the words of the question itself.                      *)
(***************************************************************************)
\* C34: a message whose normalized text equals the normalized text of an
\* option parses to that very option, also when another option's text is
\* contained in it.
C34_ExactMatchPreferred ==
    call.fn = "parse_multiple_choice" =>
        \A i \in 1..Len(call.options) :
            normalize(call.message) = normalize(call.options[i])
                => call.result = Success(TextVal(call.options[i]))

\* C35: a message equal to a keyword of a band of the Likert lexicon, or to
\* the scale label of a band, parses to that band's value.
C35_KeywordGivesItsBand ==
    call.fn = "parse_likert" =>
        \A v \in 1..Len(LikertKeywords) :
            /\ normalize(call.message) = normalize(LikertLabels[v])
                   => call.result = Success(IntVal(v))
            /\ \A w \in 1..Len(LikertKeywords[v]) :
                   normalize(call.message) = normalize(LikertKeywords[v][w])
                       => call.result = Success(IntVal(v))

\* C36: the multiple-choice parser fails on an empty or blank message,
\* whatever the (non-empty) option list, and no pass takes such a message as
\* a choice through the fast path.
C36_EmptyMessageNoChoice ==
    /\ call.fn = "parse_multiple_choice" /\ Strip(call.message) = <<>> /\ call.options # <<>>
           => ~call.result.success
    /\ turn.op = "questionnaire" /\ Strip(turn.message) = <<>>
           /\ turn.state_before \in {"followup_questions", "origin_questions"}
           => turn.parsed # "fast"

(***************************************************************************)
(* The answers buffer of the first phase.                                  *)
(***************************************************************************)
\* the item was answered, or disregarded with a null response
Settled(item) ==
    \/ item.desconsiderada = "True" /\ item.response = NoneVal
    \/ item.desconsiderada = "False" /\ item.response \notin {AbsentVal, NoneVal}

\* C37: in PHASE1_QUESTIONS with cursor i the answers buffer holds exactly
\* i + 1 entries, entry k being question k of the questionnaire, and each of
\* the entries before the cursor carries a recorded response or the
\* disregarded mark with a null response.
C37_BufferTracksCursor ==
    session.state = "phase1_questions" =>
        LET i == session.current_question_index
            buffer == session.phase1_data
        IN  /\ Len(buffer) = i + 1
            /\ i < Len(Questionnaire)
            /\ \A k \in 1..Len(buffer) : buffer[k].id = Questionnaire[k].id
            /\ \A k \in 1..i : Settled(buffer[k])

\* the first phase resumed after a crisis episode with an answered and a
\* disregarded question behind the cursor
C37_Witness ==
    /\ session.state = "phase1_questions"
    /\ turn.op = "crisis" /\ turn.can_resume
    /\ \E k \in 1..session.current_question_index :
           session.phase1_data[k].desconsiderada = "True"
    /\ \E k \in 1..session.current_question_index :
           session.phase1_data[k].desconsiderada = "False"

(***************************************************************************)
(* The interaction log.                                                    *)
(***************************************************************************)
\* C38: the record logged for a pass carries the state the session had
\* before the message as state_before and the state after the pass as
\* state_after.
C38_LogCarriesBothStates ==
    turn.log.written =>
        /\ turn.log.state_before = turn.state_before
        /\ turn.log.state_after = session.state

(***************************************************************************)
(* Audio messages.                                                         *)
(***************************************************************************)
\* C39: a failed audio turn leaves the session row (state, cursor, answers,
\* counters, snapshot) and the crisis episode exactly as they were, and
\* runs neither the screening nor a parser.
C39_FailedAudioChangesNothing ==
    [][turn'.op = "audio" =>
           /\ session' = session
           /\ crisis' = crisis
           /\ ~turn'.screened /\ ~turn'.detailed
           /\ ~turn'.llm_used /\ turn'.parsed = "none"]_vars

\* C40: a pass that was the only one of its participant in flight from its
\* load to its end worked on the rows the store still held when it ended,
\* so what it wrote lost nothing; and a load or a pass of one participant
\* leaves the session and the crisis episode of every other participant as
\* they were.  With overlapping passes the last writer wins (C40_Witness).
C40_NoLossWhenAloneAndIsolation ==
    [][/\ (saved' # saved /\ saved'.alone) => saved'.loaded = saved'.before
       /\ \A p \in Senders :
              stored'[p] # stored[p] =>
                  \/ \E k \in DOMAIN machines :
                         /\ machines[k].busy /\ machines[k].sender = p
                         /\ ~machines'[k].busy
                  \/ \E k \in DOMAIN machines :
                         /\ ~machines[k].busy
                         /\ machines'[k].busy /\ machines'[k].sender = p]_vars

\* two overlapping passes of one participant each recorded an answer to the
\* first question: the second write replaced the first, the cursor advanced
\* once and the first answer is gone
C40_Witness ==
    /\ ~saved.alone
    /\ saved.kind = "recorded"
    /\ saved.loaded.session.current_question_index = 0
    /\ saved.before.session.current_question_index = 1
    /\ saved.after.session.current_question_index = 1
    /\ saved.before.session.phase1_data[1].response = IntVal(3)
    /\ saved.after.session.phase1_data[1].response = IntVal(5)
    /\ stored[saved.sender] = saved.after

====
